---- MODULE Spec2Model ----
(***************************************************************************)
(* A model of the i18n hardcoded-text checker (dmdgpdi/i18n-script).       *)
(*                                                                         *)
(*   Spec       the run orchestrator: IntegratedHardcodingChecker          *)
(*              (handleCLI, runAllChecks), the two sub-engines' file loops *)
(*              (JSXHardcodedChecker.checkJSXHardcoding,                   *)
(*              EnhancedToastChecker.checkFiles) and the TypeScript        *)
(*              variant JSXHardcodeChecker.checkJSXHardcode.               *)
(*   SpecAllow  EnhancedToastChecker.isAllowedPattern and isHardcodedValue *)
(*              applied to string literals, over configured allowPatterns. *)
(*   SpecCallee the CallExpression visitor over callees and configured     *)
(*              toastFunctions.                                            *)
(*   SpecCall   the CallExpression visitor over the arguments of a call:   *)
(*              literals, templates, object and array literals, spreads.   *)
(*   SpecKey    suggestKey and getContextPrefix over contexts and values.  *)
(*   SpecProp   the ObjectProperty visitors over free-standing properties. *)
(*   SpecFrame  the reporters building the code frame of one finding.      *)
(*   SpecReport the reporters rendering the report of a list of findings.  *)
(*   SpecGlob   the checkers splitting the caller's patterns for glob.     *)
(*   SpecValue  getStringValue of every checker over displayed nodes.      *)
(*   SpecWalk   one checker visiting the nodes of its files in sequence.   *)
(*   SpecLoc    the visitors over nodes that carry source positions.       *)
(*   SpecTree   the notification checkers traversing whole syntax trees.    *)
(*   SpecFile   checkFile of each checker over one file, exceptions        *)
(*              included.                                                  *)
(*   SpecJsx    the JSXElement visitors of the two markup checkers over    *)
(*              elements, attributes, children and policies.              *)
(*                                                                         *)
(* Strings of the program are sequences of one-character strings, so that  *)
(* trimming, regular-expression tests and joins are computed, not assumed. *)
(***************************************************************************)
EXTENDS Integers, Sequences, FiniteSets, TLC

VARIABLES
  mode,        \* the entry point taken: handleCLI's option, or the TS checker
  disk,        \* the files glob discovers, in discovery order, with what each holds
  pc,          \* position in the run
  files,       \* the current sub-engine's `files` (result of glob)
  i,           \* index of the next file of the current sub-engine's for-loop
  allErrors,   \* the current sub-engine's `allErrors`
  found,       \* per sub-engine: the findings it accumulated when it returned
  results,     \* runAllChecks' `results` {jsx, toast, overall}
  exitCode,    \* -1 while the process runs; the process exit code afterwards
  log,         \* what was written to the console, in order
  reads,       \* per file: who called fs.readFileSync on its path, in order
  fileCache,   \* per sub-engine: the paths in its reporter's fileCache
  options,     \* EnhancedToastChecker's this.options
  node,        \* the syntax-tree node handed to the checker
  phase,       \* "ready" before the checker is applied to node, "done" after
  ret,         \* the value the applied function returned
  errors       \* checkFile's `errors`: the findings pushed by the visitors

runVars ==
  <<mode, disk, pc, files, i, allErrors, found, results, exitCode, log, reads, fileCache>>

chkVars == <<options, node, phase, ret, errors>>

vars == <<runVars, chkVars>>

----------------------------------------------------------------------------
(* Bounds of the model. *)

MaxFiles == 2
MaxFindings == 2
MaxValueLen == 3
MaxPatterns == 2
MaxToastFunctions == 2
MaxCalleeDepth == 2
MaxQuasiLen == 2
MaxProps == 2
MaxKeyLen == 4
MaxAttributes == 1
MaxChildren == 1
MaxLine == 3
MaxColumn == 2
MaxDiagnostics == 3
MaxCallerPatterns == 3
MaxVisits == 3
MaxBody == 3
MaxStatements == 2

----------------------------------------------------------------------------
(* Run orchestration *)

\* What a discovered path holds.  "ok": parses, and the walker yields `jsx`
\* findings in the JSX engine and `toast` findings in the notification engine;
\* "parseError": @babel/parser throws on it; "dir": statSync says directory;
\* "unreadable": statSync or readFileSync throws on it.
FileKinds == {"ok", "parseError", "dir", "unreadable"}

FileStates ==
  [kind : {"ok"}, jsx : 0..MaxFindings, toast : 0..MaxFindings]
    \cup [kind : FileKinds \ {"ok"}, jsx : {0}, toast : {0}]

Modes == {"all", "jsxOnly", "toastOnly", "tsJsx"}

Engines == {"jsx", "toast", "ts"}

\* The findings the walker pushes for file number f in engine e.
FileFindings(e, f) ==
  LET n == IF e = "toast" THEN disk[f].toast ELSE disk[f].jsx
  IN  [k \in 1..n |-> [file |-> f, k |-> k]]

Event(ev, e, f, errs) == [ev |-> ev, engine |-> e, file |-> f, errs |-> errs]

InitRun ==
  /\ mode \in Modes
  /\ \E n \in 0..MaxFiles : disk \in [1..n -> FileStates]
  /\ pc = "start"
  /\ files = <<>>
  /\ i = 1
  /\ allErrors = <<>>
  /\ found = [e \in Engines |-> <<>>]
  /\ results = [jsx |-> FALSE, toast |-> FALSE, overall |-> FALSE]
  /\ exitCode = -1
  /\ log = <<>>
  /\ reads = [f \in DOMAIN disk |-> <<>>]
  /\ fileCache = [e \in Engines |-> {}]

RECURSIVE FormatErrors(_, _, _)
\* reporter.formatError for each of the n findings of file f, one after the
\* other: getFileLines reads the file unless the path is in the cache, and
\* puts it there. Yields the cache and the number of reads.
FormatErrors(cache, f, n) ==
  IF n = 0 THEN [cache |-> cache, reads |-> 0]
  ELSE LET before == FormatErrors(cache, f, n - 1)
       IN  [cache |-> before.cache \cup {f},
            reads |-> before.reads + (IF f \in before.cache THEN 0 ELSE 1)]

\* The reads of one checkFile(files[i]) of engine e: its own readFileSync,
\* then those of the reporter while the findings are formatted.
CheckFileReads(e) ==
  IF files[i].kind \in {"unreadable", "dir"}
    THEN UNCHANGED <<reads, fileCache>>
    ELSE LET formatted == FormatErrors(fileCache[e], i, Len(FileFindings(e, i)))
         IN  /\ reads' = [reads EXCEPT ![i] =
                            @ \o <<[engine |-> e, by |-> "checkFile"]>>
                              \o [k \in 1..formatted.reads |->
                                    [engine |-> e, by |-> "getFileLines"]]]
             /\ fileCache' = [fileCache EXCEPT ![e] = formatted.cache]

\* handleCLI dispatching on the option, and runAllChecks up to the first
\* sub-engine call.
HandleCLI ==
  /\ pc = "start"
  /\ pc' = CASE mode = "all" -> "jsxGlob"
             [] mode = "jsxOnly" -> "jsxGlob"
             [] mode = "toastOnly" -> "toastGlob"
             [] mode = "tsJsx" -> "tsGlob"
  /\ UNCHANGED <<mode, disk, files, i, allErrors, found, results, exitCode, log>>
  /\ UNCHANGED <<reads, fileCache>>
  /\ UNCHANGED chkVars

\* A mutation: runAllChecks gives up when the JSX engine has failed.
AfterJsx_StopsOnFailure(r, lg) ==
  IF mode = "jsxOnly" \/ ~r
    THEN /\ pc' = "done"
         /\ exitCode' = IF r THEN 0 ELSE 1
         /\ results' = results
         /\ log' = lg
    ELSE /\ pc' = "toastGlob"
         /\ exitCode' = exitCode
         /\ results' = [results EXCEPT !.jsx = r]
         /\ log' = lg

\* What follows the JSX engine's return value r: runAllChecks stores it and
\* goes on to the notification engine; --jsx-only exits with it.
AfterJsx(r, lg) ==
  IF mode = "jsxOnly"
    THEN /\ pc' = "done"
         /\ exitCode' = IF r THEN 0 ELSE 1
         /\ results' = results
         /\ log' = lg
    ELSE /\ pc' = "toastGlob"
         /\ exitCode' = exitCode
         /\ results' = [results EXCEPT !.jsx = r]
         /\ log' = lg

\* JSXHardcodedChecker.checkJSXHardcoding: glob inside the try block.
JsxGlob ==
  /\ pc = "jsxGlob"
  /\ \E ok \in BOOLEAN :
       IF ok
         THEN /\ files' = disk
              /\ i' = 1
              /\ allErrors' = <<>>
              /\ pc' = "jsxLoop"
              /\ log' = Append(log, Event("start", "jsx", 0, <<>>))
              /\ UNCHANGED <<found, results, exitCode>>
         ELSE \* catch (error): logs, returns false
              /\ AfterJsx(FALSE, log \o <<Event("start", "jsx", 0, <<>>),
                                         Event("error", "jsx", 0, <<>>)>>)
              /\ UNCHANGED <<files, i, allErrors, found>>
  /\ UNCHANGED <<mode, disk>>
  /\ UNCHANGED <<reads, fileCache>>
  /\ UNCHANGED chkVars

\* One iteration of checkJSXHardcoding's for-loop: checkFile(files[i]).
JsxCheckFile ==
  /\ pc = "jsxLoop"
  /\ i <= Len(files)
  /\ CASE files[i].kind = "unreadable" ->
            \* statSync/readFileSync throw outside checkFile's try; the loop's
            \* enclosing catch logs and returns false
            /\ AfterJsx(FALSE, Append(log, Event("error", "jsx", i, <<>>)))
            /\ found' = [found EXCEPT !["jsx"] = allErrors]
            /\ UNCHANGED <<i, allErrors>>
       [] files[i].kind = "dir" ->
            /\ i' = i + 1
            /\ UNCHANGED <<pc, allErrors, found, results, exitCode, log>>
       [] files[i].kind = "parseError" ->
            /\ i' = i + 1
            /\ log' = Append(log, Event("warn", "jsx", i, <<>>))
            /\ UNCHANGED <<pc, allErrors, found, results, exitCode>>
       [] files[i].kind = "ok" ->
            /\ i' = i + 1
            /\ allErrors' = allErrors \o FileFindings("jsx", i)
            /\ UNCHANGED <<pc, found, results, exitCode, log>>
  /\ UNCHANGED <<mode, disk, files>>
  /\ CheckFileReads("jsx")
  /\ UNCHANGED chkVars

\* After the loop: the pass line and true, or the report and false.
JsxFinish ==
  /\ pc = "jsxLoop"
  /\ i > Len(files)
  /\ found' = [found EXCEPT !["jsx"] = allErrors]
  /\ IF Len(allErrors) = 0
       THEN AfterJsx(TRUE, Append(log, Event("pass", "jsx", 0, <<>>)))
       ELSE AfterJsx(FALSE, Append(log, Event("report", "jsx", 0, allErrors)))
  /\ UNCHANGED <<mode, disk, files, i, allErrors>>
  /\ UNCHANGED <<reads, fileCache>>
  /\ UNCHANGED chkVars

\* An exception leaving EnhancedToastChecker.checkFiles: runAllChecks' catch
\* logs it and exits 1; under --toast-only handleCLI's .catch does the same.
\* f is the file whose stat/read threw; 0 when glob threw.
ToastThrows(lg, f) ==
  /\ pc' = "done"
  /\ exitCode' = 1
  /\ log' = Append(lg, Event("fatal", "toast", f, <<>>))
  /\ results' = results

\* EnhancedToastChecker.checkFiles: glob, outside any try block.
ToastGlob ==
  /\ pc = "toastGlob"
  /\ \E ok \in BOOLEAN :
       IF ok
         THEN /\ files' = disk
              /\ i' = 1
              /\ allErrors' = <<>>
              /\ pc' = "toastLoop"
              /\ log' = Append(log, Event("start", "toast", 0, <<>>))
              /\ UNCHANGED <<results, exitCode>>
         ELSE /\ ToastThrows(Append(log, Event("start", "toast", 0, <<>>)), 0)
              /\ UNCHANGED <<files, i, allErrors>>
  /\ UNCHANGED <<mode, disk, found>>
  /\ UNCHANGED <<reads, fileCache>>
  /\ UNCHANGED chkVars

\* One iteration of checkFiles' for-loop: checkFile(files[i]).
ToastCheckFile ==
  /\ pc = "toastLoop"
  /\ i <= Len(files)
  /\ CASE files[i].kind = "unreadable" ->
            /\ ToastThrows(log, i)
            /\ found' = [found EXCEPT !["toast"] = allErrors]
            /\ UNCHANGED <<i, allErrors>>
       [] files[i].kind = "dir" ->
            /\ i' = i + 1
            /\ UNCHANGED <<pc, allErrors, found, results, exitCode, log>>
       [] files[i].kind = "parseError" ->
            /\ i' = i + 1
            /\ log' = Append(log, Event("warn", "toast", i, <<>>))
            /\ UNCHANGED <<pc, allErrors, found, results, exitCode>>
       [] files[i].kind = "ok" ->
            /\ i' = i + 1
            /\ allErrors' = allErrors \o FileFindings("toast", i)
            /\ UNCHANGED <<pc, found, results, exitCode, log>>
  /\ UNCHANGED <<mode, disk, files>>
  /\ CheckFileReads("toast")
  /\ UNCHANGED chkVars

\* After the loop: generateReport(allErrors) is always printed (the success
\* line for no findings); returns allErrors.length === 0.
ToastFinish ==
  /\ pc = "toastLoop"
  /\ i > Len(files)
  /\ found' = [found EXCEPT !["toast"] = allErrors]
  /\ LET r == Len(allErrors) = 0
         lg == Append(log, Event(IF r THEN "pass" ELSE "report", "toast", 0, allErrors))
     IN  IF mode = "toastOnly"
           THEN /\ pc' = "done"
                /\ exitCode' = IF r THEN 0 ELSE 1
                /\ results' = results
                /\ log' = lg
           ELSE /\ pc' = "summary"
                /\ exitCode' = exitCode
                /\ results' = [results EXCEPT !.toast = r]
                /\ log' = lg
  /\ UNCHANGED <<mode, disk, files, i, allErrors>>
  /\ UNCHANGED <<reads, fileCache>>
  /\ UNCHANGED chkVars

\* runAllChecks: results.overall, printSummary, process.exit(1) when it failed;
\* otherwise handleCLI returns and the process ends with code 0.
PrintSummary ==
  /\ pc = "summary"
  /\ LET overall == results.jsx /\ results.toast
     IN  /\ results' = [results EXCEPT !.overall = overall]
         /\ exitCode' = IF overall THEN 0 ELSE 1
  /\ log' = Append(log, Event("summary", "all", 0, <<>>))
  /\ pc' = "done"
  /\ UNCHANGED <<mode, disk, files, i, allErrors, found>>
  /\ UNCHANGED <<reads, fileCache>>
  /\ UNCHANGED chkVars

\* JSXHardcodeChecker.checkJSXHardcode (TypeScript variant): getFiles.
TsGlob ==
  /\ pc = "tsGlob"
  /\ \E ok \in BOOLEAN :
       IF ok
         THEN /\ files' = disk
              /\ i' = 1
              /\ allErrors' = <<>>
              /\ pc' = "tsLoop"
              /\ log' = Append(log, Event("start", "ts", 0, <<>>))
         ELSE \* filesResult.isErr(): logs and returns
              /\ pc' = "done"
              /\ log' = log \o <<Event("start", "ts", 0, <<>>),
                                 Event("error", "ts", 0, <<>>)>>
              /\ UNCHANGED <<files, i, allErrors>>
  /\ UNCHANGED <<mode, disk, found, results, exitCode>>
  /\ UNCHANGED <<reads, fileCache>>
  /\ UNCHANGED chkVars

\* One iteration of checkJSXHardcode's for-loop.
TsCheckFile ==
  /\ pc = "tsLoop"
  /\ i <= Len(files)
  /\ CASE files[i].kind = "unreadable" ->
            \* statSync/readFileSync throw out of checkFile and out of the run
            /\ pc' = "done"
            /\ log' = Append(log, Event("fatal", "ts", i, <<>>))
            /\ found' = [found EXCEPT !["ts"] = allErrors]
            /\ UNCHANGED <<i, allErrors>>
       [] files[i].kind = "dir" ->
            /\ i' = i + 1
            /\ UNCHANGED <<pc, allErrors, found, log>>
       [] files[i].kind = "parseError" ->
            \* result.isErr(): logs the warning and returns from the run
            /\ pc' = "done"
            /\ log' = Append(log, Event("warn", "ts", i, <<>>))
            /\ found' = [found EXCEPT !["ts"] = allErrors]
            /\ UNCHANGED <<i, allErrors>>
       [] files[i].kind = "ok" ->
            /\ i' = i + 1
            /\ allErrors' = allErrors \o FileFindings("ts", i)
            /\ UNCHANGED <<pc, found, log>>
  /\ UNCHANGED <<mode, disk, files, results, exitCode>>
  /\ CheckFileReads("ts")
  /\ UNCHANGED chkVars

\* After the loop: the pass line, or the failure line and printReport.
TsFinish ==
  /\ pc = "tsLoop"
  /\ i > Len(files)
  /\ found' = [found EXCEPT !["ts"] = allErrors]
  /\ log' = Append(log, Event(IF Len(allErrors) = 0 THEN "pass" ELSE "report",
                              "ts", 0, allErrors))
  /\ pc' = "done"
  /\ UNCHANGED <<mode, disk, files, i, allErrors, results, exitCode>>
  /\ UNCHANGED <<reads, fileCache>>
  /\ UNCHANGED chkVars

NextRun ==
  \/ HandleCLI
  \/ JsxGlob
  \/ JsxCheckFile
  \/ JsxFinish
  \/ ToastGlob
  \/ ToastCheckFile
  \/ ToastFinish
  \/ PrintSummary
  \/ TsGlob
  \/ TsCheckFile
  \/ TsFinish

----------------------------------------------------------------------------
(* Properties of the run *)

\* The sub-engines the entry point runs.
EnginesOf(m) ==
  CASE m = "all" -> {"jsx", "toast"}
    [] m = "jsxOnly" -> {"jsx"}
    [] m = "toastOnly" -> {"toast"}
    [] m = "tsJsx" -> {"ts"}

RECURSIVE ExpectedFrom(_, _)
\* The findings of the parsable files from number f on, in discovery order:
\* what a run over the list without its other files yields.
ExpectedFrom(e, f) ==
  IF f > Len(disk) THEN <<>>
  ELSE (IF disk[f].kind = "ok" THEN FileFindings(e, f) ELSE <<>>)
         \o ExpectedFrom(e, f + 1)

Expected(e) == ExpectedFrom(e, 1)

HasEvent(ev, e, f) ==
  \E k \in 1..Len(log) : log[k].ev = ev /\ log[k].engine = e /\ log[k].file = f

\* A glob failure: the JSX engines log it as an error, checkFiles throws.
IsGlobFailure(x) == x.file = 0 /\ x.ev \in {"error", "fatal"}

GlobFailed == \E k \in 1..Len(log) : IsGlobFailure(log[k])

HasKind(kind) == \E f \in 1..Len(disk) : disk[f].kind = kind

\* The engine's findings report: the report of exactly errs, or the pass line
\* when errs is empty.
Reported(e, errs) ==
  \E k \in 1..Len(log) :
    /\ log[k].engine = e
    /\ log[k].ev = (IF errs = <<>> THEN "pass" ELSE "report")
    /\ log[k].errs = errs

\* The run's outcome is that of the listed files' findings alone.
OutcomeIsExpected ==
  /\ \A e \in EnginesOf(mode) : found[e] = Expected(e) /\ Reported(e, Expected(e))
  /\ mode = "all" =>
       results.overall = (Expected("jsx") = <<>> /\ Expected("toast") = <<>>)
  /\ mode # "tsJsx" =>
       (exitCode = 0) = (\A e \in EnginesOf(mode) : Expected(e) = <<>>)

\* C1: when the parser fails on a discovered file (and nothing else goes
\* wrong: glob succeeds, every file can be read), a warning is logged for it,
\* it contributes no finding, every other file is checked, and the findings
\* and the verdict are those of the file list without the unparsable file.
C1_ParseFailureIsRecoverable ==
  (pc = "done" /\ HasKind("parseError") /\ ~HasKind("unreadable") /\ ~GlobFailed) =>
    /\ OutcomeIsExpected
    /\ \A e \in EnginesOf(mode) : \A f \in 1..Len(disk) :
         disk[f].kind = "parseError" => HasEvent("warn", e, f)

\* C1 in the two engines of check-all-hardcoding.mjs alone.
C1_HoldsInMjsEngines == mode # "tsJsx" => C1_ParseFailureIsRecoverable

\* C2: when a discovered file cannot be stat'ed or read (and nothing else goes
\* wrong: glob succeeds, every other file parses), the failure is logged as a
\* warning, the file contributes no finding, every remaining file and
\* sub-engine runs, and the verdict is that of the other files' findings.
C2_ReadFailureIsRecoverable ==
  (pc = "done" /\ HasKind("unreadable") /\ ~HasKind("parseError") /\ ~GlobFailed) =>
    /\ OutcomeIsExpected
    /\ \A e \in EnginesOf(mode) : \A f \in 1..Len(disk) :
         disk[f].kind = "unreadable" => HasEvent("warn", e, f)

\* C3: runAllChecks' verdict is true iff both sub-engines produced no finding,
\* and the exit code is 0 iff every sub-engine that ran produced no finding
\* and no run-level error (a failing glob) occurred.
C3_VerdictIsNoFindings ==
  (pc = "done" /\ mode # "tsJsx") =>
    /\ (HasEvent("summary", "all", 0) /\ ~GlobFailed) =>
         results.overall = (found["jsx"] = <<>> /\ found["toast"] = <<>>)
    /\ (exitCode = 0) =
         (~GlobFailed /\ \A e \in EnginesOf(mode) : found[e] = <<>>)

\* C4: once file discovery has failed in a sub-engine nothing more happens in
\* the run (no file is checked, no sub-engine is started, no report and no
\* summary is printed), and the process exits with a non-zero code.
C4_GlobFailureAborts ==
  /\ \A k \in 1..Len(log) : IsGlobFailure(log[k]) => k = Len(log)
  /\ (pc = "done" /\ GlobFailed /\ mode # "tsJsx") => exitCode = 1

\* The checker is not applied to any node during the orchestrated run: what
\* the walker yields per file is part of `disk`.
IdleChk ==
  /\ options = [toastFunctions |-> <<>>, objectProperties |-> <<>>, allowPatterns |-> <<>>]
  /\ node = [type |-> "File"]
  /\ phase = "idle"
  /\ ret = [fn |-> "none", val |-> FALSE]
  /\ errors = <<>>

Init == InitRun /\ IdleChk

Next == NextRun

Spec == Init /\ [][Next]_vars

----------------------------------------------------------------------------
(* Strings: sequences of one-character strings *)

\* What String.prototype.trim removes and the regular expression \s matches.
WhiteSpace == {" ", "\t", "\n", "\r"}

\* What the regular expression . does not match.
LineTerminators == {"\n", "\r"}

Digits == {"0", "1", "2", "3", "4", "5", "6", "7", "8", "9"}

Quotes == {"'", "\""}

RECURSIVE TrimStart(_)
TrimStart(str) ==
  IF str # <<>> /\ Head(str) \in WhiteSpace THEN TrimStart(Tail(str)) ELSE str

RECURSIVE TrimEnd(_)
TrimEnd(str) ==
  IF str # <<>> /\ str[Len(str)] \in WhiteSpace
    THEN TrimEnd(SubSeq(str, 1, Len(str) - 1))
    ELSE str

\* String.prototype.trim
Trim(str) == TrimEnd(TrimStart(str))

\* String.prototype.startsWith
StartsWith(str, prefix) ==
  Len(prefix) <= Len(str) /\ SubSeq(str, 1, Len(prefix)) = prefix

\* String.prototype.includes
Includes(str, part) ==
  \E k \in 0..(Len(str) - Len(part)) : SubSeq(str, k + 1, k + Len(part)) = part

AllIn(str, from, to, chars) == \A k \in from..to : str[k] \in chars

AllNotIn(str, from, to, chars) == \A k \in from..to : str[k] \notin chars

----------------------------------------------------------------------------
(* The allow list *)

s_i18n == <<"i", "1", "8", "n", ".">>
s_true == <<"t", "r", "u", "e">>
s_false == <<"f", "a", "l", "s", "e">>
s_null == <<"n", "u", "l", "l">>
s_undefined == <<"u", "n", "d", "e", "f", "i", "n", "e", "d">>
s_console == <<"c", "o", "n", "s", "o", "l", "e", ".">>
s_processEnv == <<"p", "r", "o", "c", "e", "s", "s", ".", "e", "n", "v", ".">>
s_import == <<"i", "m", "p", "o", "r", "t", "(">>
s_require == <<"r", "e", "q", "u", "i", "r", "e", "(">>

\* RegExp.prototype.test for the regular expressions of the default
\* allowPatterns, each named by what it lets through.
RegExpTest(re, value) ==
  CASE re = "tCall" ->        \* /^t\(['"]/
         Len(value) >= 3 /\ value[1] = "t" /\ value[2] = "(" /\ value[3] \in Quotes
    [] re = "i18n" ->         \* /^i18n\./
         StartsWith(value, s_i18n)
    [] re = "placeholder" ->  \* /^\$\{.*\}$/
         /\ Len(value) >= 3
         /\ value[1] = "$" /\ value[2] = "{" /\ value[Len(value)] = "}"
         /\ AllNotIn(value, 3, Len(value) - 1, LineTerminators)
    [] re = "keyword" ->      \* /^(true|false|null|undefined)$/
         value \in {s_true, s_false, s_null, s_undefined}
    [] re = "digits" ->       \* /^\d+$/
         Len(value) >= 1 /\ AllIn(value, 1, Len(value), Digits)
    [] re = "blank" ->        \* /^['"]?\s*['"]?$/
         \E a \in {0, 1}, b \in {0, 1} :
           /\ a + b <= Len(value)
           /\ a = 1 => value[1] \in Quotes
           /\ b = 1 => value[Len(value)] \in Quotes
           /\ AllIn(value, 1 + a, Len(value) - b, WhiteSpace)
    [] re = "console" ->      \* /^console\./
         StartsWith(value, s_console)
    [] re = "processEnv" ->   \* /^process\.env\./
         StartsWith(value, s_processEnv)
    [] re = "import" ->       \* /^import\(/
         StartsWith(value, s_import)
    [] re = "require" ->      \* /^require\(/
         StartsWith(value, s_require)

\* An entry of allowPatterns: a RegExp or a string.
RegExpPattern(re) == [kind |-> "RegExp", re |-> re, text |-> <<>>]

StringPattern(text) == [kind |-> "string", re |-> "", text |-> text]

\* The default allowPatterns of the constructor.
DefaultAllowPatterns ==
  << RegExpPattern("tCall"), RegExpPattern("i18n"), RegExpPattern("placeholder"),
     RegExpPattern("keyword"), RegExpPattern("digits"), RegExpPattern("blank"),
     RegExpPattern("console"), RegExpPattern("processEnv"),
     RegExpPattern("import"), RegExpPattern("require") >>

\* The callback of allowPatterns.some in isAllowedPattern.
PatternAllows(pattern, value) ==
  IF pattern.kind = "RegExp"
    THEN RegExpTest(pattern.re, value)
    ELSE Includes(value, pattern.text)

RECURSIVE SomePatternFrom(_, _, _)
\* Array.prototype.some over allowPatterns, from index k on.
SomePatternFrom(patterns, k, value) ==
  IF k > Len(patterns) THEN FALSE
  ELSE IF PatternAllows(patterns[k], value) THEN TRUE
  ELSE SomePatternFrom(patterns, k + 1, value)

\* isAllowedPattern without its first line: a plausible slip.
isAllowedPattern_NoBlankShortcut(opts, value) ==
  SomePatternFrom(opts.allowPatterns, 1, value)

\* isAllowedPattern looking at the first pattern only: a plausible slip.
isAllowedPattern_FirstPatternOnly(opts, value) ==
  IF value = <<>> \/ Trim(value) = <<>> THEN TRUE
  ELSE opts.allowPatterns # <<>> /\ PatternAllows(opts.allowPatterns[1], value)

\* EnhancedToastChecker.isAllowedPattern
isAllowedPattern(opts, value) ==
  IF value = <<>> \/ Trim(value) = <<>> THEN TRUE
  ELSE SomePatternFrom(opts.allowPatterns, 1, value)

----------------------------------------------------------------------------
(* Syntax-tree nodes, as @babel/parser builds them *)

NullNode == [type |-> "null"]

StringLiteral(value) == [type |-> "StringLiteral", value |-> value]

NumericLiteral(value) == [type |-> "NumericLiteral", value |-> value]

\* quasis: the raw texts of the static segments; one more than expressions.
TemplateLiteral(quasis, expressions) ==
  [type |-> "TemplateLiteral", quasis |-> quasis, expressions |-> expressions]

Identifier(name) == [type |-> "Identifier", name |-> name]

MemberExpression(object, property) ==
  [type |-> "MemberExpression", object |-> object, property |-> property]

CallExpression(callee, arguments) ==
  [type |-> "CallExpression", callee |-> callee, arguments |-> arguments]

ObjectProperty(key, value) == [type |-> "ObjectProperty", key |-> key, value |-> value]

SpreadElement(argument) == [type |-> "SpreadElement", argument |-> argument]

ObjectExpression(properties) == [type |-> "ObjectExpression", properties |-> properties]

ArrayExpression(elements) == [type |-> "ArrayExpression", elements |-> elements]

JSXExpressionContainer(expression) ==
  [type |-> "JSXExpressionContainer", expression |-> expression]

----------------------------------------------------------------------------
(* The classifier of EnhancedToastChecker (current variant) *)

\* Array.prototype.includes
ArrayIncludes(list, x) == \E k \in 1..Len(list) : list[k] = x

\* EnhancedToastChecker.isUserFacingProperty.  No node of @babel/parser has
\* type 'Literal': a quoted key is a StringLiteral.
isUserFacingProperty(opts, prop) ==
  IF prop.key.type = "Identifier" THEN ArrayIncludes(opts.objectProperties, prop.key.name)
  ELSE IF prop.key.type = "Literal" THEN ArrayIncludes(opts.objectProperties, prop.key.value)
  ELSE FALSE

RECURSIVE SumLen(_, _)
\* quasis.reduce((total, quasi) => total + quasi.value.raw.length, 0), from k on
SumLen(quasis, k) ==
  IF k > Len(quasis) THEN 0 ELSE Len(quasis[k]) + SumLen(quasis, k + 1)

MIN_STATIC_LENGTH == 3

\* hasSignificantStaticContent with > for >=: a plausible slip.
hasSignificantStaticContent_Strict(tpl) ==
  IF tpl.type # "TemplateLiteral" THEN FALSE
  ELSE SumLen(tpl.quasis, 1) > MIN_STATIC_LENGTH

\* EnhancedToastChecker.hasSignificantStaticContent
hasSignificantStaticContent(tpl) ==
  IF tpl.type # "TemplateLiteral" THEN FALSE
  ELSE SumLen(tpl.quasis, 1) >= MIN_STATIC_LENGTH

RECURSIVE isHardcodedValue(_, _)
RECURSIVE hasHardcodedObjectProperties(_, _)

\* EnhancedToastChecker.isHardcodedValue
isHardcodedValue(opts, n) ==
  IF n.type = "null" THEN FALSE
  ELSE IF n.type \in {"Literal", "StringLiteral"}
    THEN ~isAllowedPattern(opts, n.value)
  ELSE IF n.type = "TemplateLiteral"
    THEN IF Len(n.expressions) = 0
           THEN ~isAllowedPattern(opts, IF Len(n.quasis) >= 1 THEN n.quasis[1] ELSE <<>>)
           ELSE hasSignificantStaticContent(n)
  ELSE IF n.type = "JSXExpressionContainer"
    THEN isHardcodedValue(opts, n.expression)
  ELSE IF n.type = "ObjectExpression"
    THEN hasHardcodedObjectProperties(opts, n)
  ELSE IF n.type = "ArrayExpression"
    THEN \E k \in 1..Len(n.elements) :
           n.elements[k].type # "null" /\ isHardcodedValue(opts, n.elements[k])
  ELSE FALSE

\* EnhancedToastChecker.hasHardcodedObjectProperties
hasHardcodedObjectProperties(opts, obj) ==
  IF obj.type # "ObjectExpression" THEN FALSE
  ELSE \E k \in 1..Len(obj.properties) :
         LET prop == obj.properties[k]
         IN  IF prop.type = "ObjectProperty" /\ isUserFacingProperty(opts, prop)
               THEN isHardcodedValue(opts, prop.value)
             ELSE IF prop.type = "SpreadElement"
               THEN isHardcodedValue(opts, prop.argument)
             ELSE FALSE

----------------------------------------------------------------------------
(* The CallExpression visitor of EnhancedToastChecker.checkFile *)

s_undefinedName == <<"u", "n", "d", "e", "f", "i", "n", "e", "d">>

\* `${node.property.name}`: the text "undefined" when the property node has
\* no name (a computed property such as message['error']).
PropertyNameText(property) ==
  IF property.type = "Identifier" THEN property.name ELSE s_undefinedName

RECURSIVE getCalleeText(_)
\* EnhancedToastChecker.getCalleeText
getCalleeText(n) ==
  IF n.type = "MemberExpression"
    THEN getCalleeText(n.object) \o <<".">> \o PropertyNameText(n.property)
  ELSE IF n.type = "Identifier" THEN n.name
  ELSE <<>>

RECURSIVE RegExpFromFuncTest(_, _, _, _)
\* new RegExp(`^${func.replace(/\*/g, '.*')}$`).test(text), for a func made of
\* identifier characters, '.' and '*': does func from position k on match
\* text from position j on, up to its end?  A '*' of func has become '.*',
\* and a '.' of func is the regular expression's any-character.
RegExpFromFuncTest(func, k, text, j) ==
  IF k > Len(func) THEN j > Len(text)
  ELSE IF func[k] = "*"
    THEN \/ RegExpFromFuncTest(func, k + 1, text, j)
         \/ /\ j <= Len(text)
            /\ text[j] \notin LineTerminators
            /\ RegExpFromFuncTest(func, k, text, j + 1)
  ELSE IF func[k] = "."
    THEN /\ j <= Len(text)
         /\ text[j] \notin LineTerminators
         /\ RegExpFromFuncTest(func, k + 1, text, j + 1)
  ELSE /\ j <= Len(text)
       /\ text[j] = func[k]
       /\ RegExpFromFuncTest(func, k + 1, text, j + 1)

\* EnhancedToastChecker.isToastFunction
isToastFunction(opts, calleeText) ==
  \E k \in 1..Len(opts.toastFunctions) :
    LET func == opts.toastFunctions[k]
    IN  IF ArrayIncludes(func, "*")
          THEN RegExpFromFuncTest(func, 1, calleeText, 1)
          ELSE calleeText = func

RECURSIVE JoinAll(_, _)
\* quasis.map(quasi => quasi.value.raw || '').join(''), from k on
JoinAll(quasis, k) ==
  IF k > Len(quasis) THEN <<>> ELSE quasis[k] \o JoinAll(quasis, k + 1)

\* The two fixed texts getStringValue returns for what it cannot show. A
\* character outside ASCII is written U+ and its code unit.
\* '[' 템 플 릿 ' ' 리 터 럴 ']'
TemplateSentinel == <<"[", "U+D15C", "U+D50C", "U+B9BF", " ", "U+B9AC", "U+D130", "U+B7F4", "]">>

\* '[' 복 잡 한 ' ' 표 현 식 ']'
ComplexSentinel == <<"[", "U+BCF5", "U+C7A1", "U+D55C", " ", "U+D45C", "U+D604", "U+C2DD", "]">>

RECURSIVE getStringValue(_)
\* EnhancedToastChecker.getStringValue
getStringValue(n) ==
  IF n.type \in {"Literal", "StringLiteral"} THEN n.value
  ELSE IF n.type = "TemplateLiteral"
    THEN IF Len(n.expressions) = 0
           THEN (IF Len(n.quasis) >= 1 THEN n.quasis[1] ELSE <<>>)
           ELSE (IF JoinAll(n.quasis, 1) # <<>> THEN JoinAll(n.quasis, 1)
                 ELSE TemplateSentinel)
  ELSE IF n.type = "JSXExpressionContainer" THEN getStringValue(n.expression)
  ELSE ComplexSentinel

----------------------------------------------------------------------------
(* The suggested key *)

LowerCaseLetters == <<"a", "b", "c", "d", "e", "f", "g", "h", "i", "j", "k", "l", "m", "n", "o", "p", "q", "r", "s", "t", "u", "v", "w", "x", "y", "z">>

UpperCaseLetters == <<"A", "B", "C", "D", "E", "F", "G", "H", "I", "J", "K", "L", "M", "N", "O", "P", "Q", "R", "S", "T", "U", "V", "W", "X", "Y", "Z">>

Letters == {LowerCaseLetters[k] : k \in 1..26} \cup {UpperCaseLetters[k] : k \in 1..26}

\* The characters of the range 가-힣 (U+AC00 to U+D7A3) that occur here.
HangulSyllables == {"U+AC00", "U+B7F4", "U+B9AC", "U+B9BF", "U+BCF5", "U+C2DD", "U+C7A1", "U+D130", "U+D15C", "U+D45C", "U+D50C", "U+D55C", "U+D604", "U+D7A3"}

\* String.prototype.toLowerCase, by character
CharToLowerCase(c) ==
  IF \E k \in 1..26 : UpperCaseLetters[k] = c
    THEN LowerCaseLetters[CHOOSE k \in 1..26 : UpperCaseLetters[k] = c]
    ELSE c

\* String.prototype.toUpperCase, by character
CharToUpperCase(c) ==
  IF \E k \in 1..26 : LowerCaseLetters[k] = c
    THEN UpperCaseLetters[CHOOSE k \in 1..26 : LowerCaseLetters[k] = c]
    ELSE c

toLowerCase(word) == [k \in 1..Len(word) |-> CharToLowerCase(word[k])]

\* A character that /[^a-zA-Z0-9\s가-힣]/g leaves in place.
IsKeyChar(c) == c \in Letters \cup Digits \cup WhiteSpace \cup HangulSyllables

RECURSIVE SplitWhiteSpaceFrom(_, _, _)
\* split(/\s+/) of a trimmed string: the words from position k on, `word`
\* being the word collected so far.
SplitWhiteSpaceFrom(str, k, word) ==
  IF k > Len(str) THEN <<word>>
  ELSE IF str[k] \in WhiteSpace
    THEN (IF k > 1 /\ str[k - 1] \in WhiteSpace
            THEN SplitWhiteSpaceFrom(str, k + 1, word)
            ELSE <<word>> \o SplitWhiteSpaceFrom(str, k + 1, <<>>))
  ELSE SplitWhiteSpaceFrom(str, k + 1, Append(word, str[k]))

\* /[가-힣]/.test(word)
HasHangul(word) == \E k \in 1..Len(word) : word[k] \in HangulSyllables

\* MapWord with the tail of a later Latin word kept as written: a plausible slip.
MapWord_TailAsWritten(word, index) ==
  IF index = 0 THEN toLowerCase(word)
  ELSE IF HasHangul(word) THEN word
  ELSE IF word = <<>> THEN <<>>
  ELSE <<CharToUpperCase(word[1])>> \o Tail(word)

\* The callback of .map((word, index) => ...) in suggestKey
MapWord(word, index) ==
  IF index = 0 THEN toLowerCase(word)
  ELSE IF HasHangul(word) THEN word
  ELSE IF word = <<>> THEN <<>>
  ELSE <<CharToUpperCase(word[1])>> \o toLowerCase(Tail(word))

RECURSIVE MapJoinFrom(_, _)
\* .map(...).join('') from word k on
MapJoinFrom(words, k) ==
  IF k > Len(words) THEN <<>>
  ELSE MapWord(words[k], k - 1) \o MapJoinFrom(words, k + 1)

\* cleanValue of suggestKey
CleanValue(value) ==
  MapJoinFrom(SplitWhiteSpaceFrom(Trim(SelectSeq(value, IsKeyChar)), 1, <<>>), 1)

s_common == <<"c", "o", "m", "m", "o", "n">>
s_error == <<"e", "r", "r", "o", "r">>
s_success == <<"s", "u", "c", "c", "e", "s", "s">>
s_warning == <<"w", "a", "r", "n", "i", "n", "g">>
s_info == <<"i", "n", "f", "o">>
s_message == <<"m", "e", "s", "s", "a", "g", "e">>
s_Message == <<"M", "e", "s", "s", "a", "g", "e">>
s_alert == <<"a", "l", "e", "r", "t">>
s_confirm == <<"c", "o", "n", "f", "i", "r", "m">>
s_title == <<"t", "i", "t", "l", "e">>
s_description == <<"d", "e", "s", "c", "r", "i", "p", "t", "i", "o", "n">>
s_label == <<"l", "a", "b", "e", "l">>
s_placeholder == <<"p", "l", "a", "c", "e", "h", "o", "l", "d", "e", "r">>
s_tooltip == <<"t", "o", "o", "l", "t", "i", "p">>
s_helpText == <<"h", "e", "l", "p", "T", "e", "x", "t">>
s_help == <<"h", "e", "l", "p">>
s_constructor == <<"c", "o", "n", "s", "t", "r", "u", "c", "t", "o", "r">>
s_toString == <<"t", "o", "S", "t", "r", "i", "n", "g">>
s_valueOf == <<"v", "a", "l", "u", "e", "O", "f">>

\* prefixMap of getContextPrefix: its own keys and their values
prefixMap ==
  << <<s_message \o <<".">> \o s_error, s_error>>,
     <<s_message \o <<".">> \o s_success, s_success>>,
     <<s_message \o <<".">> \o s_warning, s_warning>>,
     <<s_message \o <<".">> \o s_info, s_info>>,
     <<s_Message \o <<".">> \o s_error, s_error>>,
     <<s_Message \o <<".">> \o s_success, s_success>>,
     <<s_Message \o <<".">> \o s_warning, s_warning>>,
     <<s_alert, s_alert>>,
     <<s_confirm, s_confirm>>,
     <<s_title, s_title>>,
     <<s_description, s_description>>,
     <<s_label, s_label>>,
     <<s_placeholder, s_placeholder>>,
     <<s_tooltip, s_tooltip>>,
     <<s_helpText, s_help>> >>

\* Names that an object literal inherits from Object.prototype: prefixMap[name]
\* is that member, a function, which is truthy.
ObjectPrototypeMembers == {s_constructor, s_toString, s_valueOf}

\* The member of Object.prototype of that name; in a template string, its text.
InheritedMember(name) == <<"Object.prototype.">> \o name

\* EnhancedToastChecker.getContextPrefix: prefixMap[context] || 'common'
getContextPrefix(context) ==
  IF \E k \in 1..Len(prefixMap) : prefixMap[k][1] = context
    THEN prefixMap[CHOOSE k \in 1..Len(prefixMap) : prefixMap[k][1] = context][2]
  ELSE IF context \in ObjectPrototypeMembers THEN InheritedMember(context)
  ELSE s_common

\* suggestKey prefixing the context itself: a plausible slip.
suggestKey_ContextAsPrefix(context, value) ==
  context \o <<".">> \o CleanValue(value)

\* EnhancedToastChecker.suggestKey
suggestKey(context, value) ==
  getContextPrefix(context) \o <<".">> \o CleanValue(value)

\* The errorInfo of a hardcoded plain argument.
\* A node with a source position: loc.start of the parser, line from 1,
\* column from 0.
At(n, line, column) ==
  [f \in DOMAIN n \cup {"loc"} |->
     IF f = "loc" THEN [line |-> line, column |-> column] ELSE n[f]]

\* n.loc?.start.line and n.loc?.start.column, 0 standing for undefined:
\* both are falsy to ||.
StartLine(n) == IF "loc" \in DOMAIN n THEN n.loc.line ELSE 0

StartColumn(n) == IF "loc" \in DOMAIN n THEN n.loc.column ELSE 0

\* a || b || 0 over numbers
FirstTruthy(a, b) == IF a # 0 THEN a ELSE b

ToastFunctionError(calleeText, arg) ==
  [line |-> StartLine(arg), column |-> StartColumn(arg),
   type |-> "toast-function", value |-> getStringValue(arg),
   functionName |-> calleeText, propertyName |-> <<>>,
   suggestion |-> calleeText \o <<"(", "t", "(", "'">>
                    \o suggestKey(calleeText, getStringValue(arg)) \o <<"'", ")", ")">>]

\* prop.key.name || prop.key.value
KeyText(key) ==
  IF key.type = "Identifier" THEN key.name
  ELSE IF key.type \in {"StringLiteral", "Literal"} THEN key.value
  ELSE <<>>

\* The errorInfo of a hardcoded property of an object argument.
ToastObjectPropertyError(functionName, prop) ==
  [line |-> FirstTruthy(StartLine(prop.value), StartLine(prop)),
   column |-> FirstTruthy(StartColumn(prop.value), StartColumn(prop)),
   type |-> "toast-object-property", value |-> getStringValue(prop.value),
   functionName |-> functionName, propertyName |-> KeyText(prop.key),
   suggestion |-> KeyText(prop.key) \o <<":", " ", "t", "(", "'">>
                    \o suggestKey(KeyText(prop.key), getStringValue(prop.value))
                    \o <<"'", ")">>]

RECURSIVE ObjectPropertyErrorsFrom(_, _, _, _)
\* The forEach of getObjectPropertyErrors, from property k on.
ObjectPropertyErrorsFrom(opts, obj, functionName, k) ==
  IF k > Len(obj.properties) THEN <<>>
  ELSE LET prop == obj.properties[k]
       IN  (IF /\ prop.type = "ObjectProperty"
               /\ isUserFacingProperty(opts, prop)
               /\ isHardcodedValue(opts, prop.value)
              THEN <<ToastObjectPropertyError(functionName, prop)>>
              ELSE <<>>)
             \o ObjectPropertyErrorsFrom(opts, obj, functionName, k + 1)

\* EnhancedToastChecker.getObjectPropertyErrors
getObjectPropertyErrors(opts, obj, functionName) ==
  IF obj.type # "ObjectExpression" THEN <<>>
  ELSE ObjectPropertyErrorsFrom(opts, obj, functionName, 1)

RECURSIVE ArgumentErrorsFrom(_, _, _, _)
\* findHardcodedArguments(arguments).forEach(...), from argument k on.
ArgumentErrorsFrom(opts, args, calleeText, k) ==
  IF k > Len(args) THEN <<>>
  ELSE (IF ~isHardcodedValue(opts, args[k]) THEN <<>>
        ELSE IF args[k].type = "ObjectExpression"
          THEN getObjectPropertyErrors(opts, args[k], calleeText)
          ELSE <<ToastFunctionError(calleeText, args[k])>>)
         \o ArgumentErrorsFrom(opts, args, calleeText, k + 1)

\* The CallExpression visitor (current variant): what it pushes into errors.
CallExpressionErrors(opts, call) ==
  LET calleeText == getCalleeText(call.callee)
  IN  IF isToastFunction(opts, calleeText)
        THEN ArgumentErrorsFrom(opts, call.arguments, calleeText, 1)
        ELSE <<>>

RECURSIVE legacyIsHardcodedValue(_, _)
\* isHardcodedValue of the legacy variant
legacyIsHardcodedValue(opts, n) ==
  IF n.type = "null" THEN FALSE
  ELSE IF n.type = "Literal" THEN ~isAllowedPattern(opts, n.value)
  ELSE IF n.type = "TemplateLiteral" /\ Len(n.expressions) = 0
    THEN ~isAllowedPattern(opts, IF Len(n.quasis) >= 1 THEN n.quasis[1] ELSE <<>>)
  ELSE IF n.type = "JSXExpressionContainer"
    THEN legacyIsHardcodedValue(opts, n.expression)
  ELSE FALSE

RECURSIVE legacyGetStringValue(_)
\* getStringValue of the legacy variant
legacyGetStringValue(n) ==
  IF n.type = "Literal" THEN n.value
  ELSE IF n.type = "TemplateLiteral" /\ Len(n.expressions) = 0
    THEN (IF Len(n.quasis) >= 1 THEN n.quasis[1] ELSE <<>>)
  ELSE IF n.type = "JSXExpressionContainer" THEN legacyGetStringValue(n.expression)
  ELSE ComplexSentinel

RECURSIVE LegacyArgumentErrorsFrom(_, _, _, _)
LegacyArgumentErrorsFrom(opts, args, calleeText, k) ==
  IF k > Len(args) THEN <<>>
  ELSE (IF ~legacyIsHardcodedValue(opts, args[k]) THEN <<>>
        ELSE <<[line |-> StartLine(args[k]), column |-> StartColumn(args[k]),
                type |-> "toast-function", value |-> legacyGetStringValue(args[k]),
                functionName |-> calleeText, propertyName |-> <<>>,
                suggestion |-> calleeText \o <<"(", "t", "(", "'">>
                                 \o suggestKey(calleeText, legacyGetStringValue(args[k]))
                                 \o <<"'", ")", ")">>]>>)
         \o LegacyArgumentErrorsFrom(opts, args, calleeText, k + 1)

\* The CallExpression visitor of the legacy variant: getCalleeText is given
\* the call node itself, not its callee.
LegacyCallExpressionErrors(opts, call) ==
  LET calleeText == getCalleeText(call)
  IN  IF isToastFunction(opts, calleeText)
        THEN LegacyArgumentErrorsFrom(opts, call.arguments, calleeText, 1)
        ELSE <<>>

----------------------------------------------------------------------------
(* SpecAllow: the allow-list matcher applied to one string literal *)

\* No run is in progress while a single node is classified.
IdleRun ==
  /\ mode = "none"
  /\ disk = <<>>
  /\ pc = "idle"
  /\ files = <<>>
  /\ i = 1
  /\ allErrors = <<>>
  /\ found = [e \in Engines |-> <<>>]
  /\ results = [jsx |-> FALSE, toast |-> FALSE, overall |-> FALSE]
  /\ exitCode = -1
  /\ log = <<>>
  /\ reads = <<>>
  /\ fileCache = [e \in Engines |-> {}]

SeqsUpTo(S, n) == UNION {[1..m -> S] : m \in 0..n}

\* The characters the string values are made of.
ValueChars == {"a", "1", "'", " ", "\n"}

\* The allowPatterns entries the configured lists are made of.
PatternUniverse ==
  { RegExpPattern("digits"), RegExpPattern("blank"),
    StringPattern(<<"a">>), StringPattern(<<"1", "a">>) }

InitAllow ==
  /\ IdleRun
  /\ \E pl \in SeqsUpTo(PatternUniverse, MaxPatterns) :
       options = [toastFunctions |-> <<>>, objectProperties |-> <<>>, allowPatterns |-> pl]
  /\ \E v \in SeqsUpTo(ValueChars, MaxValueLen) : node = StringLiteral(v)
  /\ phase = "ready"
  /\ ret = [fn |-> "none", val |-> FALSE]
  /\ errors = <<>>

\* this.isAllowedPattern(node.value)
ApplyIsAllowedPattern ==
  /\ phase = "ready"
  /\ node.type = "StringLiteral"
  /\ ret' = [fn |-> "isAllowedPattern", val |-> isAllowedPattern(options, node.value)]
  /\ phase' = "done"
  /\ UNCHANGED <<options, node, errors>>
  /\ UNCHANGED runVars

\* this.isHardcodedValue(node)
ApplyIsHardcodedValue ==
  /\ phase = "ready"
  /\ ret' = [fn |-> "isHardcodedValue", val |-> isHardcodedValue(options, node)]
  /\ phase' = "done"
  /\ UNCHANGED <<options, node, errors>>
  /\ UNCHANGED runVars

NextAllow ==
  \/ ApplyIsAllowedPattern
  \/ ApplyIsHardcodedValue

SpecAllow == InitAllow /\ [][NextAllow]_vars

\* A pattern matches a value: its regular expression tests true on it, or,
\* for a string pattern, the value contains it.
Matches(pattern, value) ==
  \/ pattern.kind = "RegExp" /\ RegExpTest(pattern.re, value)
  \/ pattern.kind = "string" /\ Includes(value, pattern.text)

MatchesSome(value) ==
  \E k \in 1..Len(options.allowPatterns) : Matches(options.allowPatterns[k], value)

Returned(fn) == phase = "done" /\ ret.fn = fn

\* C5 as stated: for every non-empty value, isAllowedPattern returns true iff
\* the value matches at least one configured pattern.
C5_NonEmptyAllowedIffMatches ==
  (Returned("isAllowedPattern") /\ node.value # <<>>) =>
    (ret.val = MatchesSome(node.value))

\* C5 amended: for every value that is not empty after trimming,
\* isAllowedPattern returns true iff the value matches at least one configured
\* pattern (regex test, or containment for a string pattern).
C5_NonBlankAllowedIffMatches ==
  (Returned("isAllowedPattern") /\ Trim(node.value) # <<>>) =>
    (ret.val = MatchesSome(node.value))

\* A non-blank value allowed by the second of two patterns only.
C5_Witness ==
  /\ Returned("isAllowedPattern")
  /\ Trim(node.value) # <<>>
  /\ ret.val
  /\ Len(options.allowPatterns) = 2
  /\ ~Matches(options.allowPatterns[1], node.value)
  /\ options.allowPatterns[2].kind = "string"

\* C6: for the empty string and every whitespace-only string, whatever
\* allowPatterns holds, isAllowedPattern returns true and isHardcodedValue
\* returns false for the string literal.
C6_BlankAlwaysAllowed ==
  (phase = "done" /\ Trim(node.value) = <<>>) =>
    /\ ret.fn = "isAllowedPattern" => ret.val
    /\ ret.fn = "isHardcodedValue" => ~ret.val

\* A whitespace-only, non-empty string allowed under an empty pattern list.
C6_Witness ==
  /\ Returned("isAllowedPattern")
  /\ node.value # <<>>
  /\ Trim(node.value) = <<>>
  /\ options.allowPatterns = <<>>
  /\ ret.val

----------------------------------------------------------------------------
(* The visitor applied to one call expression *)

\* The CallExpression visitor of the current variant, on `node`.
VisitCallExpression ==
  /\ phase = "ready"
  /\ node.type = "CallExpression"
  /\ errors' = errors \o CallExpressionErrors(options, node)
  /\ ret' = [fn |-> "CallExpression",
             val |-> isToastFunction(options, getCalleeText(node.callee))]
  /\ phase' = "done"
  /\ UNCHANGED <<options, node>>
  /\ UNCHANGED runVars

\* The CallExpression visitor of the legacy variant, on `node`.
LegacyVisitCallExpression ==
  /\ phase = "ready"
  /\ node.type = "CallExpression"
  /\ errors' = errors \o LegacyCallExpressionErrors(options, node)
  /\ ret' = [fn |-> "LegacyCallExpression",
             val |-> isToastFunction(options, getCalleeText(node))]
  /\ phase' = "done"
  /\ UNCHANGED <<options, node>>
  /\ UNCHANGED runVars

NextVisit ==
  \/ VisitCallExpression
  \/ LegacyVisitCallExpression

s_text == <<"t", "e", "x", "t">>
s_body == <<"b", "o", "d", "y">>

----------------------------------------------------------------------------
(* SpecCallee: which calls are notification calls *)

\* Identifier names of the callees.
CalleeNames == {<<"a">>, <<"b">>, <<"a", "b">>}

RECURSIVE Callees(_)
\* Callee expressions with at most d member accesses: identifiers, `this`,
\* and members of them by name or by a computed string key.
Callees(d) ==
  IF d = 0
    THEN {Identifier(n) : n \in CalleeNames} \cup {[type |-> "ThisExpression"]}
    ELSE Callees(d - 1)
           \cup {MemberExpression(o, Identifier(n)) : o \in Callees(d - 1), n \in CalleeNames}
           \cup {MemberExpression(o, StringLiteral(<<"b">>)) : o \in Callees(d - 1)}

\* The toastFunctions entries the configured lists are made of:
\* a, ab, a.b, a.*, *.b, *
FuncUniverse ==
  { <<"a">>, <<"a", "b">>, <<"a", ".", "b">>, <<"a", ".", "*">>,
    <<"*", ".", "b">>, <<"*">> }

InitCallee ==
  /\ IdleRun
  /\ \E fl \in SeqsUpTo(FuncUniverse, MaxToastFunctions) :
       options = [toastFunctions |-> fl, objectProperties |-> <<s_title>>,
                  allowPatterns |-> DefaultAllowPatterns]
  /\ \E c \in Callees(MaxCalleeDepth) :
       node = CallExpression(c, <<StringLiteral(<<"x">>)>>)
  /\ phase = "ready"
  /\ ret = [fn |-> "none", val |-> FALSE]
  /\ errors = <<>>

SpecCallee == InitCallee /\ [][NextVisit]_vars

RECURSIVE SplitFrom(_, _, _)
\* text.split('.'): the segments of text from position k on, cur being the
\* segment under construction.
SplitFrom(text, k, cur) ==
  IF k > Len(text) THEN <<cur>>
  ELSE IF text[k] = "." THEN <<cur>> \o SplitFrom(text, k + 1, <<>>)
  ELSE SplitFrom(text, k + 1, Append(cur, text[k]))

Segments(text) == SplitFrom(text, 1, <<>>)

\* An entry matches a path segment by segment: as many segments, each equal
\* or, for the entry's segment *, any one segment.
SegmentMatch(func, path) ==
  LET fs == Segments(func)
      ps == Segments(path)
  IN  /\ Len(fs) = Len(ps)
      /\ \A k \in 1..Len(fs) : fs[k] = <<"*">> \/ fs[k] = ps[k]

\* The notification calls as C7 describes them.
IsNotificationPath(path) ==
  \E k \in 1..Len(options.toastFunctions) :
    LET func == options.toastFunctions[k]
    IN  \/ path = func
        \/ ArrayIncludes(func, "*") /\ SegmentMatch(func, path)

\* C7: the call is treated as a notification call (its hardcoded argument is
\* reported) iff its callee path equals an entry of toastFunctions or matches
\* a wildcard entry segment by segment.
C7_NotificationCallIffSegmentMatch ==
  Returned("CallExpression") =>
    /\ ret.val = IsNotificationPath(getCalleeText(node.callee))
    /\ (errors # <<>>) = IsNotificationPath(getCalleeText(node.callee))

\* C7 for the legacy variant's visitor.
C7_LegacyNotificationCallIffSegmentMatch ==
  Returned("LegacyCallExpression") =>
    (errors # <<>>) = IsNotificationPath(getCalleeText(node.callee))

\* The call ab("x") under toastFunctions = ['a.*'] is not taken for a
\* notification call.
C7_DotIsLiteral ==
  ( /\ Returned("CallExpression")
    /\ options.toastFunctions = << <<"a", ".", "*">> >>
    /\ node.callee = Identifier(<<"a", "b">>) ) => errors = <<>>

----------------------------------------------------------------------------
(* SpecCall: the arguments of a notification call *)

s_log == <<"l", "o", "g">>
s_id == <<"i", "d">>
s_Error == <<"E", "r", "r", "o", "r">>

\* t('d'): a call of the lookup function
LookupCall == CallExpression(Identifier(<<"t">>), <<StringLiteral(<<"d">>)>>)

\* The static segments of the templates.
Quasis == SeqsUpTo({"H", " "}, MaxQuasiLen)

\* Template literals with one or two interpolations.
Templates ==
  {TemplateLiteral(<<q1, q2>>, <<Identifier(<<"x">>)>>) : q1 \in Quasis, q2 \in Quasis}
    \cup {TemplateLiteral(<<q1, q2, q3>>, <<Identifier(<<"x">>), Identifier(<<"y">>)>>) :
            q1 \in Quasis, q2 \in Quasis, q3 \in Quasis}

\* `Hi ${x}`: static length 3
ShortTemplate == TemplateLiteral(<<<<"H", "i", " ">>, <<>>>>, <<Identifier(<<"x">>)>>)

\* Values without inner structure.
SimpleValues == {StringLiteral(s_Error), StringLiteral(<<" ">>), LookupCall}

\* { text: "Error", body: "Error" }, { text: t('d') }, ["Error", "Error"]
NestedValues ==
  { ObjectExpression(<<ObjectProperty(Identifier(s_text), StringLiteral(s_Error)),
                       ObjectProperty(Identifier(s_body), StringLiteral(s_Error))>>),
    ObjectExpression(<<ObjectProperty(Identifier(s_text), LookupCall)>>),
    ArrayExpression(<<StringLiteral(s_Error), StringLiteral(s_Error)>>),
    ShortTemplate }

\* Keys: title, id, "title"
Keys == {Identifier(s_title), Identifier(s_id), StringLiteral(s_title)}

\* The members of the object literals: properties, ...{ title: "Error" }, ...cfg
Members ==
  {ObjectProperty(k, v) : k \in Keys, v \in SimpleValues \cup NestedValues}
    \cup { SpreadElement(ObjectExpression(
             <<ObjectProperty(Identifier(s_title), StringLiteral(s_Error))>>)),
           SpreadElement(Identifier(<<"c", "f", "g">>)) }

Objects == {ObjectExpression(ps) : ps \in SeqsUpTo(Members, MaxProps)}

Arguments == SimpleValues \cup Templates \cup Objects

InitCall ==
  /\ IdleRun
  /\ options = [toastFunctions |-> <<s_alert>>,
                objectProperties |-> <<s_title, s_text, s_body>>,
                allowPatterns |-> DefaultAllowPatterns]
  /\ \E c \in {s_alert, s_log}, a \in Arguments :
       node = CallExpression(Identifier(c), <<a>>)
  /\ phase = "ready"
  /\ ret = [fn |-> "none", val |-> FALSE]
  /\ errors = <<>>

SpecCall == InitCall /\ [][NextVisit]_vars

\* The current visitor has visited a notification call with argument `node.arguments[1]`.
VisitedNotificationCall == Returned("CallExpression") /\ ret.val

Arg == node.arguments[1]

\* A key, written as an identifier or as a quoted string, names a
\* user-facing property.
KeyIsUserFacing(key) ==
  /\ key.type \in {"Identifier", "StringLiteral"}
  /\ ArrayIncludes(options.objectProperties, KeyText(key))

\* A string literal that is not blank and matches no allow pattern.
IsHardcodedString(n) ==
  /\ n.type = "StringLiteral"
  /\ Trim(n.value) # <<>>
  /\ ~MatchesSome(n.value)

\* An object literal whose members are all properties with simple values.
IsFlatObject(obj) ==
  /\ obj.type = "ObjectExpression"
  /\ \A k \in 1..Len(obj.properties) :
       /\ obj.properties[k].type = "ObjectProperty"
       /\ obj.properties[k].value \in SimpleValues

HardcodedProperties(obj) ==
  {k \in 1..Len(obj.properties) :
     KeyIsUserFacing(obj.properties[k].key) /\ IsHardcodedString(obj.properties[k].value)}

\* C8: for an object-literal argument of a notification call, the number of
\* findings is the number of its properties whose key (an identifier or a
\* quoted string) is in objectProperties and whose value is a hardcoded string.
C8_OneFindingPerHardcodedProperty ==
  (VisitedNotificationCall /\ IsFlatObject(Arg)) =>
    Len(errors) = Cardinality(HardcodedProperties(Arg))

\* C8 for object literals whose keys are all identifiers.
C8_HoldsForIdentifierKeys ==
  ( /\ VisitedNotificationCall
    /\ IsFlatObject(Arg)
    /\ \A k \in 1..Len(Arg.properties) : Arg.properties[k].key.type = "Identifier" ) =>
    Len(errors) = Cardinality(HardcodedProperties(Arg))

RECURSIVE OffendingLeaves(_)
RECURSIVE OffendingLeavesOfMembers(_, _)
RECURSIVE OffendingLeavesOfElements(_, _)

\* The number of offending leaf values below a value: a hardcoded string or
\* template counts one; an object literal counts those of its user-facing
\* properties and of its spread object literals; an array those of its elements.
OffendingLeaves(n) ==
  IF n.type = "StringLiteral" THEN (IF IsHardcodedString(n) THEN 1 ELSE 0)
  ELSE IF n.type = "TemplateLiteral"
    THEN (IF Len(JoinAll(n.quasis, 1)) >= MIN_STATIC_LENGTH THEN 1 ELSE 0)
  ELSE IF n.type = "ObjectExpression" THEN OffendingLeavesOfMembers(n.properties, 1)
  ELSE IF n.type = "ArrayExpression" THEN OffendingLeavesOfElements(n.elements, 1)
  ELSE 0

OffendingLeavesOfMembers(ps, k) ==
  IF k > Len(ps) THEN 0
  ELSE (IF ps[k].type = "ObjectProperty"
          THEN (IF KeyIsUserFacing(ps[k].key) THEN OffendingLeaves(ps[k].value) ELSE 0)
        ELSE IF ps[k].type = "SpreadElement" THEN OffendingLeaves(ps[k].argument)
        ELSE 0)
         + OffendingLeavesOfMembers(ps, k + 1)

OffendingLeavesOfElements(es, k) ==
  IF k > Len(es) THEN 0
  ELSE OffendingLeaves(es[k]) + OffendingLeavesOfElements(es, k + 1)

\* Every key of the object literal's own properties is an identifier.
HasIdentifierKeys(obj) ==
  \A k \in 1..Len(obj.properties) :
    obj.properties[k].type = "ObjectProperty" => obj.properties[k].key.type = "Identifier"

\* C9: for an object-literal argument of a notification call, the number of
\* findings is the number of offending leaf values, nested objects, arrays and
\* spread object literals included.
C9_OneFindingPerOffendingLeaf ==
  (VisitedNotificationCall /\ Arg.type = "ObjectExpression" /\ HasIdentifierKeys(Arg)) =>
    Len(errors) = OffendingLeaves(Arg)

IsInterpolatedTemplate(n) == n.type = "TemplateLiteral" /\ Len(n.expressions) >= 1

\* The sum of the lengths of the static segments.
StaticLength(tpl) == Len(JoinAll(tpl.quasis, 1))

----------------------------------------------------------------------------
(* SpecKey: the suggested key of a finding *)

s_notify == <<"n", "o", "t", "i", "f", "y">>
s_NetworkError ==
  <<"N", "e", "t", "w", "o", "r", "k", " ", "e", "r", "r", "o", "r">>

\* The callees whose text is a key of prefixMap.
TableCallees ==
  {MemberExpression(Identifier(o), Identifier(m)) :
     o \in {s_message}, m \in {s_error, s_success, s_warning, s_info}}
    \cup {MemberExpression(Identifier(s_Message), Identifier(m)) :
            m \in {s_error, s_success, s_warning}}
    \cup {Identifier(n) : n \in {s_alert, s_confirm, s_title, s_description, s_label,
                                 s_placeholder, s_tooltip, s_helpText}}

\* Callees whose text is no key of prefixMap.
OtherCallees ==
  {Identifier(n) : n \in {s_notify, s_text, s_constructor, s_toString, s_valueOf}}
    \cup {MemberExpression(Identifier(s_Message), Identifier(s_info))}

KeyChars == {"a", "B", "1", " ", "!", "U+AC00"}

KeyValues == SeqsUpTo(KeyChars, MaxKeyLen)

InitKey ==
  /\ IdleRun
  /\ options = [toastFunctions |-> <<<<"*">>, <<"*", ".", "*">>>>,
                objectProperties |-> <<s_title, s_text, s_body>>,
                allowPatterns |-> DefaultAllowPatterns]
  /\ \/ \E v \in KeyValues :
          node = CallExpression(MemberExpression(Identifier(s_Message), Identifier(s_error)),
                                <<StringLiteral(v)>>)
     \/ \E c \in TableCallees \cup OtherCallees, v \in {s_NetworkError, <<"a", " ", "B", "B">>} :
          node = CallExpression(c, <<StringLiteral(v)>>)
  /\ phase = "ready"
  /\ ret = [fn |-> "none", val |-> <<>>]
  /\ errors = <<>>

\* suggestKey(calleeText, value) as the visitor calls it
ApplySuggestKey ==
  /\ phase = "ready"
  /\ node.type = "CallExpression"
  /\ ret' = [fn |-> "suggestKey",
             val |-> suggestKey(getCalleeText(node.callee), getStringValue(node.arguments[1]))]
  /\ phase' = "done"
  /\ UNCHANGED <<options, node, errors>>
  /\ UNCHANGED runVars

\* getContextPrefix(context) as suggestKey calls it
ApplyGetContextPrefix ==
  /\ phase = "ready"
  /\ node.type = "CallExpression"
  /\ ret' = [fn |-> "getContextPrefix", val |-> getContextPrefix(getCalleeText(node.callee))]
  /\ phase' = "done"
  /\ UNCHANGED <<options, node, errors>>
  /\ UNCHANGED runVars

NextKey ==
  \/ VisitCallExpression
  \/ ApplySuggestKey
  \/ ApplyGetContextPrefix

SpecKey == InitKey /\ [][NextKey]_vars

\* The callee path of the visited call.
CalleePath == getCalleeText(node.callee)

s_MessageError == s_Message \o <<".">> \o s_error

Cleaned(value) ==
  SelectSeq(value, LAMBDA c : c \in Letters \/ c \in Digits \/ c \in WhiteSpace
                              \/ c \in HangulSyllables)

\* Position k starts a token of str.
IsTokenStart(str, k) ==
  /\ str[k] \notin WhiteSpace
  /\ k = 1 \/ str[k - 1] \in WhiteSpace

\* The number of the token position k lies in, counting from 1.
TokenNumber(str, k) == Cardinality({j \in 1..k : IsTokenStart(str, j)})

\* The token position k lies in contains a Hangul syllable.
TokenHasHangul(str, k) ==
  \E j \in 1..Len(str) :
    /\ str[j] \in HangulSyllables
    /\ TokenNumber(str, j) = TokenNumber(str, k)
    /\ str[j] \notin WhiteSpace

\* The character position k of str contributes to the key; tailLower says
\* whether the rest of a later Latin token is lower-cased or left as written.
KeyCharAt(str, k, tailLower) ==
  IF TokenNumber(str, k) = 1 THEN CharToLowerCase(str[k])
  ELSE IF TokenHasHangul(str, k) THEN str[k]
  ELSE IF IsTokenStart(str, k) THEN CharToUpperCase(str[k])
  ELSE IF tailLower THEN CharToLowerCase(str[k])
  ELSE str[k]

RECURSIVE KeyPartFrom(_, _, _)
KeyPartFrom(str, k, tailLower) ==
  IF k > Len(str) THEN <<>>
  ELSE (IF str[k] \in WhiteSpace THEN <<>> ELSE <<KeyCharAt(str, k, tailLower)>>)
         \o KeyPartFrom(str, k + 1, tailLower)

KeyPart(value, tailLower) == KeyPartFrom(Cleaned(value), 1, tailLower)

\* C12 as stated: the part of suggestKey's result after '<prefix>.' is the
\* cleaned value, split on whitespace, first token lower-cased, each later
\* Latin token upper-cased at its first character with the rest as written,
\* later tokens with Hangul unchanged, concatenated.
C12_KeyPartTailAsWritten ==
  Returned("suggestKey") =>
    ret.val = getContextPrefix(CalleePath) \o <<".">> \o KeyPart(node.arguments[1].value, FALSE)

\* C12 amended: as above, but the rest of each later Latin token is
\* lower-cased.
C12_KeyPartTailLowerCased ==
  Returned("suggestKey") =>
    ret.val = getContextPrefix(CalleePath) \o <<".">> \o KeyPart(node.arguments[1].value, TRUE)

\* A value whose later Latin token has an upper-case letter after its first.
C12_Witness ==
  /\ Returned("suggestKey")
  /\ KeyPart(node.arguments[1].value, FALSE) # KeyPart(node.arguments[1].value, TRUE)
  /\ ret.val = s_error \o <<".">> \o KeyPart(node.arguments[1].value, TRUE)

\* C13: getContextPrefix returns the table entry for a key of the table and
\* "common" for every other context, names of built-in object members
\* included.
C13_PrefixIsEntryOrCommon ==
  Returned("getContextPrefix") =>
    ret.val = (IF \E k \in 1..Len(prefixMap) : prefixMap[k][1] = CalleePath
                 THEN prefixMap[CHOOSE k \in 1..Len(prefixMap) : prefixMap[k][1] = CalleePath][2]
                 ELSE s_common)

\* C13 for contexts that are not names of members of Object.prototype.
C13_HoldsForOtherNames ==
  (Returned("getContextPrefix") /\ CalleePath \notin ObjectPrototypeMembers) =>
    ret.val = (IF \E k \in 1..Len(prefixMap) : prefixMap[k][1] = CalleePath
                 THEN prefixMap[CHOOSE k \in 1..Len(prefixMap) : prefixMap[k][1] = CalleePath][2]
                 ELSE s_common)

----------------------------------------------------------------------------
(* The markup checkers: JSXHardcodedChecker (.mjs) and JSXHardcodeChecker (.ts) *)

JSXText(value) == [type |-> "JSXText", value |-> value]

JSXIdentifier(name) == [type |-> "JSXIdentifier", name |-> name]

\* <Antd.Button>: the name has an object and a property, and no name of its own.
JSXMemberExpression(object, property) ==
  [type |-> "JSXMemberExpression", object |-> object, property |-> property]

JSXAttribute(name, value) == [type |-> "JSXAttribute", name |-> name, value |-> value]

JSXSpreadAttribute(argument) == [type |-> "JSXSpreadAttribute", argument |-> argument]

JSXElement(name, attributes, children) ==
  [type |-> "JSXElement", openingElement |-> [name |-> name, attributes |-> attributes],
   children |-> children]

\* typeof node.value
TypeofValue(n) ==
  IF n.type \in {"StringLiteral", "JSXText"} THEN "string"
  ELSE IF n.type = "NumericLiteral" THEN "number"
  ELSE IF n.type = "Literal" THEN n.typeof
  ELSE "undefined"

\* const { name = fallback } = options
OptionOr(o, name, fallback) == IF name \in DOMAIN o THEN o[name] ELSE fallback

\* options.dom[tagName]: the own entry, or the member every object inherits,
\* or undefined.
DomEntry(opts, tagName) ==
  IF \E k \in 1..Len(opts.dom) : opts.dom[k][1] = tagName
    THEN opts.dom[CHOOSE k \in 1..Len(opts.dom) : opts.dom[k][1] = tagName][2]
  ELSE IF tagName \in ObjectPrototypeMembers THEN [inherited |-> tagName]
  ELSE [undefined |-> TRUE]

\* tagName && tagName[0] === tagName[0].toLowerCase()
IsDomTagName(tagName) == tagName # <<>> /\ tagName[1] = CharToLowerCase(tagName[1])

\* JSXHardcodedChecker.getOptionsForNode: name.name is undefined for a
\* member-expression name.
getOptionsForNode(opts, n) ==
  LET name == n.openingElement.name
  IN  IF "name" \in DOMAIN name /\ IsDomTagName(name.name)
        THEN (IF "undefined" \in DOMAIN DomEntry(opts, name.name)
                THEN opts ELSE DomEntry(opts, name.name))
        ELSE opts

\* JSXHardcodeChecker.getOptionsForNode
tsGetOptionsForNode(opts, n) ==
  LET name == n.openingElement.name
  IN  IF name.type = "JSXIdentifier"
        THEN (IF IsDomTagName(name.name)
                THEN (IF "undefined" \in DOMAIN DomEntry(opts, name.name)
                        THEN opts ELSE DomEntry(opts, name.name))
                ELSE opts)
        ELSE opts

RECURSIVE isInvalidContent(_, _, _)
\* JSXHardcodedChecker.isInvalidContent
isInvalidContent(n, allowStrings, allowNumbers) ==
  IF n.type = "null" THEN FALSE
  ELSE IF n.type = "JSXText"
    THEN (IF Trim(n.value) = <<>> THEN FALSE ELSE ~allowStrings)
  ELSE IF n.type = "Literal" /\ TypeofValue(n) = "string"
    THEN (IF Trim(n.value) = <<>> THEN FALSE ELSE ~allowStrings)
  ELSE IF n.type = "Literal" /\ TypeofValue(n) = "number" THEN ~allowNumbers
  ELSE IF n.type = "TemplateLiteral" THEN ~allowStrings
  ELSE IF n.type = "JSXExpressionContainer"
    THEN isInvalidContent(n.expression, allowStrings, allowNumbers)
  ELSE FALSE

RECURSIVE tsIsInvalidContent_NumbersIgnored(_, _, _)
\* isInvalidContent without its number branch: a plausible slip.
tsIsInvalidContent_NumbersIgnored(n, allowStrings, allowNumbers) ==
  IF n.type = "null" THEN FALSE
  ELSE IF n.type = "JSXText"
    THEN (IF Trim(n.value) = <<>> THEN FALSE ELSE ~allowStrings)
  ELSE IF "value" \in DOMAIN n /\ TypeofValue(n) = "string"
    THEN (IF Trim(n.value) = <<>> THEN FALSE ELSE ~allowStrings)
  ELSE IF n.type = "TemplateLiteral" THEN ~allowStrings
  ELSE IF n.type = "JSXExpressionContainer"
    THEN tsIsInvalidContent_NumbersIgnored(n.expression, allowStrings, allowNumbers)
  ELSE FALSE

RECURSIVE tsIsInvalidContent(_, _, _)
\* JSXHardcodeChecker.isInvalidContent
tsIsInvalidContent(n, allowStrings, allowNumbers) ==
  IF n.type = "null" THEN FALSE
  ELSE IF n.type = "JSXText"
    THEN (IF Trim(n.value) = <<>> THEN FALSE ELSE ~allowStrings)
  ELSE IF "value" \in DOMAIN n /\ TypeofValue(n) = "string"
    THEN (IF Trim(n.value) = <<>> THEN FALSE ELSE ~allowStrings)
  ELSE IF "value" \in DOMAIN n /\ TypeofValue(n) = "number" THEN ~allowNumbers
  ELSE IF n.type = "TemplateLiteral" THEN ~allowStrings
  ELSE IF n.type = "JSXExpressionContainer"
    THEN tsIsInvalidContent(n.expression, allowStrings, allowNumbers)
  ELSE FALSE

RECURSIVE jsxGetStringValue(_)
\* JSXHardcodedChecker.getStringValue
jsxGetStringValue(n) ==
  IF n.type = "null" THEN <<>>
  ELSE IF n.type = "JSXText" THEN n.value
  ELSE IF n.type = "Literal" THEN n.value
  ELSE IF n.type = "TemplateLiteral" /\ Len(n.expressions) = 0
    THEN (IF Len(n.quasis) >= 1 THEN n.quasis[1] ELSE <<>>)
  ELSE IF n.type = "JSXExpressionContainer" THEN jsxGetStringValue(n.expression)
  ELSE ComplexSentinel

RECURSIVE tsGetStringValue(_)
\* JSXHardcodeChecker.getStringValue
tsGetStringValue(n) ==
  IF n.type = "null" THEN <<>>
  ELSE IF n.type = "JSXText" THEN n.value
  ELSE IF n.type = "JSXExpressionContainer" THEN tsGetStringValue(n.expression)
  ELSE IF n.type = "TemplateLiteral" /\ Len(n.expressions) = 0
    THEN (IF Len(n.quasis) >= 1 THEN n.quasis[1] ELSE <<>>)
  ELSE IF "value" \in DOMAIN n /\ TypeofValue(n) = "string" THEN n.value
  ELSE ComplexSentinel

RECURSIVE checkChildrenFrom(_, _, _, _)
\* The forEach of checkChildren from child k on; ts tells the variant. loc
\* names the child the finding is about.
checkChildrenFrom(n, o, ts, k) ==
  IF k > Len(n.children) THEN <<>>
  ELSE LET child == n.children[k]
           allowStrings == OptionOr(o, "allowStrings", FALSE)
           allowNumbers == OptionOr(o, "allowNumbers", TRUE)
           invalid == IF ts THEN tsIsInvalidContent(child, allowStrings, allowNumbers)
                      ELSE isInvalidContent(child, allowStrings, allowNumbers)
       IN  (IF invalid
              THEN <<[line |-> StartLine(child), column |-> StartColumn(child),
                      type |-> "jsx-children", loc |-> <<"child", k>>, name |-> <<>>,
                      value |-> IF ts THEN tsGetStringValue(child)
                                ELSE jsxGetStringValue(child)]>>
              ELSE <<>>)
             \o checkChildrenFrom(n, o, ts, k + 1)

\* JSXHardcodedChecker.checkChildren
checkChildren(n, o) == checkChildrenFrom(n, o, FALSE, 1)

\* JSXHardcodeChecker.checkChildren
tsCheckChildren(n, o) == checkChildrenFrom(n, o, TRUE, 1)

RECURSIVE checkPropsFrom(_, _, _, _)
\* The loop of checkProps from attribute k on; loc names the attribute the
\* finding is about.
checkPropsFrom(n, o, ts, k) ==
  IF k > Len(n.openingElement.attributes) THEN <<>>
  ELSE LET attr == n.openingElement.attributes[k]
           allowStrings == OptionOr(o, "allowStrings", FALSE)
           allowNumbers == OptionOr(o, "allowNumbers", TRUE)
           invalid == IF ts THEN tsIsInvalidContent(attr.value, allowStrings, allowNumbers)
                      ELSE isInvalidContent(attr.value, allowStrings, allowNumbers)
       IN  (IF /\ attr.type = "JSXAttribute"
               /\ ArrayIncludes(OptionOr(o, "checkProps", <<>>), attr.name)
               /\ invalid
              THEN <<[line |-> FirstTruthy(StartLine(attr.value), StartLine(attr)),
                      column |-> FirstTruthy(StartColumn(attr.value), StartColumn(attr)),
                      type |-> "jsx-prop", loc |-> <<"attribute", k>>, name |-> attr.name,
                      value |-> IF ts THEN tsGetStringValue(attr.value)
                                ELSE jsxGetStringValue(attr.value)]>>
              ELSE <<>>)
             \o checkPropsFrom(n, o, ts, k + 1)

\* JSXHardcodedChecker.checkProps
checkProps(n, o) == checkPropsFrom(n, o, FALSE, 1)

\* JSXHardcodeChecker.checkProps
tsCheckProps(n, o) == checkPropsFrom(n, o, TRUE, 1)

\* The JSXElement visitor of JSXHardcodedChecker.checkFile, on `node`.
VisitJSXElement ==
  /\ phase = "ready"
  /\ node.type = "JSXElement"
  /\ LET o == getOptionsForNode(options, node)
     IN  /\ errors' = errors \o checkChildren(node, o) \o checkProps(node, o)
         /\ ret' = [fn |-> "JSXElement", val |-> o]
  /\ phase' = "done"
  /\ UNCHANGED <<options, node>>
  /\ UNCHANGED runVars

\* The JSXElement visitor of JSXHardcodeChecker.checkFile, on `node`.
TsVisitJSXElement ==
  /\ phase = "ready"
  /\ node.type = "JSXElement"
  /\ LET o == tsGetOptionsForNode(options, node)
     IN  /\ errors' = errors \o tsCheckChildren(node, o) \o tsCheckProps(node, o)
         /\ ret' = [fn |-> "TsJSXElement", val |-> o]
  /\ phase' = "done"
  /\ UNCHANGED <<options, node>>
  /\ UNCHANGED runVars


----------------------------------------------------------------------------
(* SpecJsx: one markup element under a policy *)

s_button == <<"b", "u", "t", "t", "o", "n">>
s_Button == <<"B", "u", "t", "t", "o", "n">>
s_ariaLabel == <<"a", "r", "i", "a", "-", "l", "a", "b", "e", "l">>
s_alt == <<"a", "l", "t">>

\* The options the constructor of JSXHardcodedChecker sets; it takes none.
JsxDefaultOptions ==
  [allowStrings |-> FALSE,
   allowNumbers |-> TRUE,
   checkProps |-> <<s_title, s_ariaLabel, s_alt, s_placeholder>>,
   dom |-> << <<<<"i", "m", "g">>, [checkProps |-> <<s_alt, s_title, s_ariaLabel>>]>>,
              <<<<"i", "n", "p", "u", "t">>, [checkProps |-> <<s_placeholder, s_title, s_ariaLabel>>]>>,
              <<s_button, [checkProps |-> <<s_title, s_ariaLabel>>]>>,
              <<<<"a">>, [checkProps |-> <<s_title, s_ariaLabel>>]>>,
              <<<<"a", "r", "e", "a">>, [checkProps |-> <<s_alt, s_title, s_ariaLabel>>]>> >>,
   modules |-> <<>>]

\* Options given to the constructor of JSXHardcodeChecker.
TsOptions ==
  {[allowStrings |-> as, allowNumbers |-> an, checkProps |-> <<s_title>>,
    dom |-> << <<s_button, [checkProps |-> <<s_title>>]>> >>,
    modules |-> m] :
     as \in BOOLEAN, an \in BOOLEAN,
     m \in {<<>>, << <<<<"a", "n", "t", "d">>, s_Button, [allowStrings |-> TRUE, checkProps |-> <<s_label>>]>> >>}}

ElementNames ==
  {JSXIdentifier(s_button), JSXIdentifier(<<"p">>), JSXIdentifier(s_Button),
   JSXIdentifier(s_valueOf),
   JSXMemberExpression(JSXIdentifier(<<"A", "n", "t", "d">>), JSXIdentifier(s_Button))}

\* "Click me", " ", {"Hi"}, {t('d')}, {42}, and no value
AttributeValues ==
  {StringLiteral(<<"C", "l", "i", "c", "k", " ", "m", "e">>), StringLiteral(<<" ">>),
   JSXExpressionContainer(StringLiteral(<<"H", "i">>)), JSXExpressionContainer(LookupCall),
   JSXExpressionContainer(NumericLiteral(42)), NullNode}

Attributes ==
  {JSXAttribute(n, v) : n \in {s_title, s_id}, v \in AttributeValues}
    \cup {JSXSpreadAttribute(Identifier(<<"p", "r", "o", "p", "s">>))}

\* Hi, blank text, 123, true, {t('d')}, {42}, {`Hi`}
Children ==
  {JSXText(<<"H", "i">>), JSXText(<<" ", "\n">>), JSXText(<<"1", "2", "3">>), JSXText(s_true),
   JSXExpressionContainer(LookupCall), JSXExpressionContainer(NumericLiteral(42)),
   JSXExpressionContainer(TemplateLiteral(<<<<"H", "i">>>>, <<>>))}

InitJsx ==
  /\ IdleRun
  /\ options \in {JsxDefaultOptions} \cup TsOptions
  /\ \E n \in ElementNames, as \in SeqsUpTo(Attributes, MaxAttributes),
        cs \in SeqsUpTo(Children, MaxChildren) :
       node = JSXElement(n, as, cs)
  /\ phase = "ready"
  /\ ret = [fn |-> "none", val |-> [undefined |-> TRUE]]
  /\ errors = <<>>

\* JSXHardcodedChecker runs with the options of its constructor only.
VisitJSXElementWithDefaults == options = JsxDefaultOptions /\ VisitJSXElement

NextJsx ==
  \/ VisitJSXElementWithDefaults
  \/ TsVisitJSXElement

SpecJsx == InitJsx /\ [][NextJsx]_vars

\* One of the two JSXElement visitors has visited `node`; ret.val is the
\* policy it resolved.
VisitedElement == phase = "done" /\ ret.fn \in {"JSXElement", "TsJSXElement"}

ResolvedAllowStrings == OptionOr(ret.val, "allowStrings", FALSE)

ResolvedAllowNumbers == OptionOr(ret.val, "allowNumbers", TRUE)

ResolvedCheckProps == OptionOr(ret.val, "checkProps", <<>>)

Attrs == node.openingElement.attributes

\* The positions of the findings of a kind.
FindingsAt(kind) == {errors[k].loc[2] : k \in {j \in 1..Len(errors) : errors[j].loc[1] = kind}}

\* The number of findings located at the k-th attribute or child.
FindingCount(kind, k) == Cardinality({j \in 1..Len(errors) : errors[j].loc = <<kind, k>>})

\* A string literal that is not blank, directly or in one expression container.
IsTextLiteral(v) ==
  \/ v.type = "StringLiteral" /\ Trim(v.value) # <<>>
  \/ /\ v.type = "JSXExpressionContainer"
     /\ v.expression.type = "StringLiteral"
     /\ Trim(v.expression.value) # <<>>

IsLookupContainer(v) == v.type = "JSXExpressionContainer" /\ v.expression = LookupCall

\* The checked attributes with a text literal as value.
TextAttributes ==
  {k \in 1..Len(Attrs) :
     /\ Attrs[k].type = "JSXAttribute"
     /\ ArrayIncludes(ResolvedCheckProps, Attrs[k].name)
     /\ IsTextLiteral(Attrs[k].value)}

\* C14: under a policy that does not allow strings, each attribute named in
\* the resolved checkProps whose value is a non-blank string literal (directly
\* or in one expression container) yields exactly one finding, located at that
\* attribute, and a container with a lookup call yields none.
C14_OneFindingPerTextAttribute ==
  (VisitedElement /\ ~ResolvedAllowStrings) =>
    /\ \A k \in TextAttributes : FindingCount("attribute", k) = 1
    /\ \A k \in FindingsAt("attribute") : ~IsLookupContainer(Attrs[k].value)
    /\ \A k \in FindingsAt("child") : ~IsLookupContainer(node.children[k])

\* C14 in JSXHardcodeChecker (.ts) alone.
C14_HoldsInTsChecker == ret.fn = "TsJSXElement" => C14_OneFindingPerTextAttribute

\* The text of a child that is literal text or a template without
\* interpolation.
IsLiteralTextChild(c) ==
  \/ c.type = "JSXText"
  \/ /\ c.type = "JSXExpressionContainer"
     /\ c.expression.type = "TemplateLiteral"
     /\ Len(c.expression.expressions) = 0

ChildText(c) == IF c.type = "JSXText" THEN c.value ELSE c.expression.quasis[1]

\* The Allow-List Matcher allows the text.
AllowListAllows(text) ==
  \E k \in 1..Len(DefaultAllowPatterns) : Matches(DefaultAllowPatterns[k], text)

\* C15: a child that is literal text or a template without interpolation is
\* flagged unless it is blank, the resolved policy allows strings, or the
\* allow list allows its text.
C15_TextChildFlaggedUnlessAllowed ==
  VisitedElement =>
    \A k \in 1..Len(node.children) :
      IsLiteralTextChild(node.children[k]) =>
        ((k \in FindingsAt("child")) =
           (/\ Trim(ChildText(node.children[k])) # <<>>
            /\ ~ResolvedAllowStrings
            /\ ~AllowListAllows(ChildText(node.children[k]))))

\* C15 without the allow list: flagged unless blank or strings are allowed.
C15_HoldsWithoutAllowList ==
  VisitedElement =>
    \A k \in 1..Len(node.children) :
      IsLiteralTextChild(node.children[k]) =>
        ((k \in FindingsAt("child")) =
           (Trim(ChildText(node.children[k])) # <<>> /\ ~ResolvedAllowStrings))

ElementName == node.openingElement.name

\* The name by which a component would be registered.
ComponentName == IF ElementName.type = "JSXIdentifier" THEN ElementName.name
                 ELSE ElementName.property.name

IsDomElement ==
  /\ ElementName.type = "JSXIdentifier"
  /\ \E k \in 1..26 : LowerCaseLetters[k] = ElementName.name[1]

\* C16: a lower-case tag uses the dom entry registered for it, the default
\* policy when none is; a component uses the default policy unless modules
\* registers an override for it, whose allowStrings/checkProps are then used.
C16_PolicyResolution ==
  VisitedElement =>
    IF IsDomElement
      THEN ret.val = (IF \E k \in 1..Len(options.dom) : options.dom[k][1] = ElementName.name
                        THEN options.dom[CHOOSE k \in 1..Len(options.dom) :
                                           options.dom[k][1] = ElementName.name][2]
                        ELSE options)
      ELSE IF \E k \in 1..Len(options.modules) : options.modules[k][2] = ComponentName
        THEN \E k \in 1..Len(options.modules) :
               /\ options.modules[k][2] = ComponentName
               /\ ResolvedAllowStrings = options.modules[k][3].allowStrings
               /\ ResolvedCheckProps = options.modules[k][3].checkProps
        ELSE ret.val = options

\* C16 when modules registers nothing and no tag bears the name of a built-in
\* object member.
C16_HoldsWithoutOverrides ==
  ( /\ options.modules = <<>>
    /\ ("name" \in DOMAIN ElementName => ElementName.name \notin ObjectPrototypeMembers) )
    => C16_PolicyResolution

IsNumberContainer(v) ==
  v.type = "JSXExpressionContainer" /\ v.expression.type = "NumericLiteral"

\* C17: a numeric literal in an expression container, as a child or as the
\* value of a checked attribute, is flagged iff the resolved policy has
\* allowNumbers = false.
C17_NumberFlaggedIffDisallowed ==
  VisitedElement =>
    /\ \A k \in 1..Len(node.children) :
         IsNumberContainer(node.children[k]) =>
           ((k \in FindingsAt("child")) = ~ResolvedAllowNumbers)
    /\ \A k \in 1..Len(Attrs) :
         ( /\ Attrs[k].type = "JSXAttribute"
           /\ ArrayIncludes(ResolvedCheckProps, Attrs[k].name)
           /\ IsNumberContainer(Attrs[k].value) ) =>
           ((k \in FindingsAt("attribute")) = ~ResolvedAllowNumbers)

\* A numeric child has been flagged under a policy that disallows numbers.
C17_Witness ==
  /\ VisitedElement
  /\ ~ResolvedAllowNumbers
  /\ Len(node.children) = 1
  /\ IsNumberContainer(node.children[1])
  /\ 1 \in FindingsAt("child")

----------------------------------------------------------------------------
(* SpecProp: an object property outside any notification call *)

\* The ObjectProperty visitor of the current variant, on `node`: it returns
\* at once.
VisitObjectProperty ==
  /\ phase = "ready"
  /\ node.type = "ObjectProperty"
  /\ ret' = [fn |-> "ObjectProperty", val |-> FALSE]
  /\ phase' = "done"
  /\ UNCHANGED <<options, node, errors>>
  /\ UNCHANGED runVars

\* isUserFacingProperty of the legacy variant
legacyIsUserFacingProperty(opts, prop) ==
  IF prop.key.type = "Identifier" THEN ArrayIncludes(opts.objectProperties, prop.key.name)
  ELSE IF prop.key.type = "Literal" THEN ArrayIncludes(opts.objectProperties, prop.key.value)
  ELSE FALSE

\* What the ObjectProperty visitor of the legacy variant pushes into errors.
LegacyObjectPropertyErrors(opts, prop) ==
  IF legacyIsUserFacingProperty(opts, prop) /\ legacyIsHardcodedValue(opts, prop.value)
    THEN <<[line |-> StartLine(prop.value), column |-> StartColumn(prop.value),
            type |-> "object-property", value |-> legacyGetStringValue(prop.value),
            functionName |-> <<>>, propertyName |-> KeyText(prop.key),
            suggestion |-> KeyText(prop.key) \o <<":", " ", "t", "(", "'">>
                             \o suggestKey(KeyText(prop.key), legacyGetStringValue(prop.value))
                             \o <<"'", ")">>]>>
    ELSE <<>>

\* The ObjectProperty visitor of the legacy variant, on `node`.
LegacyVisitObjectProperty ==
  /\ phase = "ready"
  /\ node.type = "ObjectProperty"
  /\ errors' = errors \o LegacyObjectPropertyErrors(options, node)
  /\ ret' = [fn |-> "LegacyObjectProperty", val |-> FALSE]
  /\ phase' = "done"
  /\ UNCHANGED <<options, node>>
  /\ UNCHANGED runVars

NextProp ==
  \/ VisitObjectProperty
  \/ LegacyVisitObjectProperty

\* Strings, templates without interpolation, arrays of strings, `Hi ${x}`
PropertyValues ==
  SimpleValues
    \cup {TemplateLiteral(<<q>>, <<>>) : q \in Quasis}
    \cup {ArrayExpression(es) : es \in SeqsUpTo(SimpleValues, MaxProps)}
    \cup {ShortTemplate}

InitProp ==
  /\ IdleRun
  /\ options = [toastFunctions |-> <<s_alert>>,
                objectProperties |-> <<s_title, s_text, s_body>>,
                allowPatterns |-> DefaultAllowPatterns]
  /\ \E k \in Keys, v \in PropertyValues : node = ObjectProperty(k, v)
  /\ phase = "ready"
  /\ ret = [fn |-> "none", val |-> FALSE]
  /\ errors = <<>>

SpecProp == InitProp /\ [][NextProp]_vars

\* A text that is not blank and matches no allow pattern.
IsHardcodedText(text) == Trim(text) # <<>> /\ ~MatchesSome(text)

\* A hardcoded string, template without interpolation, or array with a
\* hardcoded element.
IsHardcodedPropertyValue(v) ==
  \/ v.type = "StringLiteral" /\ IsHardcodedText(v.value)
  \/ v.type = "TemplateLiteral" /\ Len(v.expressions) = 0 /\ IsHardcodedText(v.quasis[1])
  \/ /\ v.type = "ArrayExpression"
     /\ \E k \in 1..Len(v.elements) :
          v.elements[k].type = "StringLiteral" /\ IsHardcodedText(v.elements[k].value)

\* C18: a free-standing property whose key, an identifier, is in
\* objectProperties and whose value is a hardcoded string, template without
\* interpolation or array of hardcoded values yields a finding of the
\* object-property kind; one with another key or an allowed value yields none.
C18_FreeStandingPropertyFlagged ==
  ( /\ phase = "done"
    /\ ret.fn \in {"ObjectProperty", "LegacyObjectProperty"}
    /\ node.key.type = "Identifier"
    /\ node.value.type \in {"StringLiteral", "TemplateLiteral", "ArrayExpression", "CallExpression"}
    /\ node.value # ShortTemplate ) =>
    IF ArrayIncludes(options.objectProperties, node.key.name) /\ IsHardcodedPropertyValue(node.value)
      THEN Len(errors) = 1 /\ errors[1].type = "object-property"
      ELSE errors = <<>>

\* The half of C18 that holds: a property with a key outside objectProperties
\* or an allowed value yields no finding.
C18_NoFindingForOtherProperties ==
  ( /\ phase = "done"
    /\ ret.fn \in {"ObjectProperty", "LegacyObjectProperty"}
    /\ node.key.type = "Identifier"
    /\ node.value # ShortTemplate
    /\ ~(ArrayIncludes(options.objectProperties, node.key.name)
           /\ IsHardcodedPropertyValue(node.value)) ) =>
    errors = <<>>

----------------------------------------------------------------------------
(* Reads of a file during a run *)

\* How often reader `by` of engine e read file f.
ReadCount(f, e, by) ==
  Cardinality({k \in 1..Len(reads[f]) : reads[f][k] = [engine |-> e, by |-> by]})

\* C19: over one complete run, every file path is read from disk at most
\* once.
C19_FileReadAtMostOnce ==
  pc = "done" => \A f \in DOMAIN reads : Len(reads[f]) <= 1

\* What the caches do ensure: each reporter reads a file at most once,
\* however many findings the file yields, and each checkFile reads it once.
C19_EachReaderReadsAtMostOnce ==
  \A f \in DOMAIN reads, e \in Engines :
    ReadCount(f, e, "getFileLines") <= 1 /\ ReadCount(f, e, "checkFile") <= 1

\* A file with two findings in an engine whose reporter read it once.
C19_CacheServesSecondFinding ==
  \E f \in DOMAIN reads :
    /\ pc = "done"
    /\ disk[f].kind = "ok" /\ disk[f].jsx = 2
    /\ ReadCount(f, "jsx", "getFileLines") = 1

----------------------------------------------------------------------------
(* The code frame of a finding: EnhancedErrorReporter and the two ErrorReporters *)

\* A finding to format: whether readFileSync succeeds on its file, the lines
\* of the file (content.split('\n')), the finding's line and column, and
\* whether @babel/code-frame's codeFrameColumns returns or throws.
Finding(readable, content, line, column, renders) ==
  [type |-> "Finding", readable |-> readable, content |-> content,
   line |-> line, column |-> column, renders |-> renders]

\* getFileLines on a path not yet cached: the lines, or [] when the read throws.
getFileLines(finding) == IF finding.readable THEN finding.content ELSE <<>>

Max(a, b) == IF a >= b THEN a ELSE b

Min(a, b) == IF a <= b THEN a ELSE b

DigitChars == <<"0", "1", "2", "3", "4", "5", "6", "7", "8", "9">>

RECURSIVE NumberToString(_)
\* Number.prototype.toString of a non-negative integer
NumberToString(n) ==
  IF n < 10 THEN <<DigitChars[n + 1]>>
  ELSE NumberToString(n \div 10) \o <<DigitChars[(n % 10) + 1]>>

\* ' '.repeat(n)
Spaces(n) == [k \in 1..n |-> " "]

\* String.prototype.padStart(n, ' ')
padStart(str, n) == Spaces(Max(0, n - Len(str))) \o str

\* EnhancedErrorReporter.createCodeContext, contextLines = 2
createCodeContext(finding) ==
  LET lines == getFileLines(finding)
      startLine == Max(1, finding.line - 2)
      endLine == Min(Len(lines), finding.line + 2)
  IN  [k \in 1..Max(0, endLine - startLine + 1) |->
         [lineNumber |-> padStart(NumberToString(startLine + k - 1), 3),
          content |-> lines[startLine + k - 1],
          isError |-> startLine + k - 1 = finding.line]]

RECURSIVE generateCodeSnippetFrom(_, _, _)
\* EnhancedErrorReporter.generateCodeSnippet: the lines it joins with '\n',
\* from context entry k on (kind stands for the colour chalk gives the line);
\* the joined text is empty iff there is no line.
generateCodeSnippetFrom(context, column, k) ==
  IF k > Len(context) THEN <<>>
  ELSE (IF context[k].isError
          THEN <<[kind |-> "error",
                  text |-> context[k].lineNumber \o <<"|", " ">> \o context[k].content]>>
                 \o (IF column > 0
                       THEN LET padding == Spaces(Len(context[k].lineNumber) + 1)
                                arrow == Spaces(column) \o <<"^", "^", "^">>
                            IN  <<[kind |-> "arrow",
                                   text |-> padding \o <<"|", " ">> \o arrow]>>
                       ELSE <<>>)
          ELSE <<[kind |-> "context",
                  text |-> context[k].lineNumber \o <<"|", " ">> \o context[k].content]>>)
         \o generateCodeSnippetFrom(context, column, k + 1)

\* lines.join('\n').length
RECURSIVE JoinedLength(_, _)
JoinedLength(lines, k) ==
  IF k > Len(lines) THEN 0
  ELSE Len(lines[k]) + (IF k < Len(lines) THEN 1 ELSE 0) + JoinedLength(lines, k + 1)

\* The text the ErrorReporters put in place of a frame, and a frame as
\* codeFrameColumns returns it, each kept as one unit.
FramePlaceholder == <<[kind |-> "placeholder", text |-> <<"placeholder">>]>>

LibraryFrame == <<[kind |-> "frame", text |-> <<"frame">>]>>

\* EnhancedErrorReporter.formatError, on the finding `node`: codeSnippet.
FormatError ==
  /\ phase = "ready"
  /\ node.type = "Finding"
  /\ ret' = [fn |-> "formatError",
             val |-> generateCodeSnippetFrom(createCodeContext(node), node.column, 1)]
  /\ phase' = "done"
  /\ UNCHANGED <<options, node, errors>>
  /\ UNCHANGED runVars

\* ErrorReporter.createCodeFrame (the variant with createCodeFrame): the
\* placeholder for no content, process.exit(1) when codeFrameColumns throws.
CreateCodeFrame ==
  /\ phase = "ready"
  /\ node.type = "Finding"
  /\ IF JoinedLength(getFileLines(node), 1) = 0
       THEN /\ ret' = [fn |-> "createCodeFrame", val |-> FramePlaceholder]
            /\ exitCode' = exitCode
       ELSE IF node.renders
         THEN /\ ret' = [fn |-> "createCodeFrame", val |-> LibraryFrame]
              /\ exitCode' = exitCode
         ELSE /\ ret' = [fn |-> "createCodeFrame", val |-> <<>>]
              /\ exitCode' = 1
  /\ phase' = "done"
  /\ UNCHANGED <<options, node, errors>>
  /\ UNCHANGED <<mode, disk, pc, files, i, allErrors, found, results, log, reads, fileCache>>

\* ErrorReporter.generateCodeSnippet (the variant with formatError): the
\* frame, or the placeholder when codeFrameColumns throws.
GenerateCodeSnippet ==
  /\ phase = "ready"
  /\ node.type = "Finding"
  /\ ret' = [fn |-> "generateCodeSnippet",
             val |-> IF node.renders THEN LibraryFrame ELSE FramePlaceholder]
  /\ phase' = "done"
  /\ UNCHANGED <<options, node, errors>>
  /\ UNCHANGED runVars

NextFrame ==
  \/ FormatError
  \/ CreateCodeFrame
  \/ GenerateCodeSnippet

\* An empty file, a one-line file, a three-line file with an empty line.
FileContents == {<<<<>>>>, <<<<"a">>>>, <<<<"a">>, <<>>, <<"b">>>>}

InitFrame ==
  /\ IdleRun
  /\ options = [toastFunctions |-> <<>>, objectProperties |-> <<>>, allowPatterns |-> <<>>]
  /\ \E readable \in BOOLEAN, content \in FileContents, line \in 0..MaxLine,
        column \in 0..MaxColumn, renders \in BOOLEAN :
       node = Finding(readable, IF readable THEN content ELSE <<>>, line, column, renders)
  /\ phase = "ready"
  /\ ret = [fn |-> "none", val |-> <<>>]
  /\ errors = <<>>

SpecFrame == InitFrame /\ [][NextFrame]_vars

\* No frame can be built: the file is unreadable or empty, or rendering throws.
FrameFails ==
  \/ ~node.readable
  \/ node.content = <<<<>>>>
  \/ ~node.renders /\ ret.fn \in {"createCodeFrame", "generateCodeSnippet"}

\* C20: when no frame can be built for a finding, formatting still yields a
\* non-empty text as code frame, and the process is not terminated.
C20_FrameFailureYieldsPlaceholder ==
  (phase = "done" /\ node.type = "Finding" /\ FrameFails) =>
    ret.val # <<>> /\ exitCode = -1

\* C20 in the ErrorReporter with formatError alone.
C20_HoldsInGenerateCodeSnippet ==
  ret.fn = "generateCodeSnippet" => C20_FrameFailureYieldsPlaceholder

----------------------------------------------------------------------------
(* The marker of the code frame *)

\* The finding formatted by formatError lies in its file.
FormattedInFile ==
  /\ phase = "done"
  /\ node.type = "Finding"
  /\ ret.fn = "formatError"
  /\ node.readable
  /\ node.line >= 1
  /\ node.line <= Len(node.content)

\* The offset (from 0) of the first marker character of a marker line.
MarkerOffset(text) == (CHOOSE k \in 1..Len(text) : text[k] = "^" /\ \A j \in 1..(k - 1) : text[j] # "^") - 1

\* The offset (from 0) in the rendered offending line of column c of the
\* line's content: what precedes the content is the gutter.
ContentOffset(rendered, content, c) == (Len(rendered) - Len(content)) + c

\* The marker line at position k + 1 points at column c of the offending line at k, shifted by d.
MarkerUnder(k, c, d) ==
  /\ ret.val[k].kind = "error"
  /\ k + 1 <= Len(ret.val)
  /\ ret.val[k + 1].kind = "arrow"
  /\ MarkerOffset(ret.val[k + 1].text)
       = ContentOffset(ret.val[k].text, node.content[node.line], c) + d

\* C21: a finding at a line of the file and column C >= 0 has a marker line
\* directly under the offending line whose first marker character is at the
\* horizontal offset of column C of the offending line, for C = 0 as well.
C21_MarkerUnderColumn ==
  FormattedInFile => \E k \in 1..Len(ret.val) : MarkerUnder(k, node.column, 0)

\* What the frame has instead: no marker line for column 0, and for a
\* positive column a marker one character to the right of the column.
C21_MarkerOneColumnRight ==
  FormattedInFile =>
    IF node.column = 0
      THEN \A k \in 1..Len(ret.val) : ret.val[k].kind # "arrow"
      ELSE \E k \in 1..Len(ret.val) : MarkerUnder(k, node.column, 1)

----------------------------------------------------------------------------
(* The report: EnhancedErrorReporter.generateReport and ErrorReporter.printReport *)

\* A property key that is an array index: a canonical numeric string.
IsArrayIndex(key) ==
  /\ Len(key) > 0
  /\ AllIn(key, 1, Len(key), Digits)
  /\ (Len(key) = 1 \/ key[1] # "0")

DigitValue(ch) == (CHOOSE d \in 1..10 : DigitChars[d] = ch) - 1

RECURSIVE StringToNumber(_)
StringToNumber(key) ==
  IF Len(key) = 0 THEN 0
  ELSE 10 * StringToNumber(SubSeq(key, 1, Len(key) - 1)) + DigitValue(key[Len(key)])

\* The position of the entry of `file` among entries, 0 if there is none.
EntryOf(entries, file) ==
  IF \E k \in 1..Len(entries) : entries[k].filePath = file
    THEN CHOOSE k \in 1..Len(entries) : entries[k].filePath = file
    ELSE 0

RECURSIVE groupErrorsByFile(_, _)
\* EnhancedErrorReporter.groupErrorsByFile over the first n errors: the own
\* properties of `groups` in insertion order. groups[file] of a name that
\* Object.prototype defines is truthy and has no push: the reduce throws.
groupErrorsByFile(errs, n) ==
  IF n = 0 THEN [threw |-> FALSE, entries |-> <<>>]
  ELSE LET before == groupErrorsByFile(errs, n - 1)
           file == errs[n].filePath
           at == EntryOf(before.entries, file)
       IN  IF before.threw THEN before
           ELSE IF at # 0
             THEN [threw |-> FALSE,
                   entries |-> [before.entries EXCEPT ![at].errors = @ \o <<errs[n]>>]]
           ELSE IF file \in ObjectPrototypeMembers
             THEN [threw |-> TRUE, entries |-> before.entries]
           ELSE [threw |-> FALSE,
                 entries |-> before.entries \o <<[filePath |-> file, errors |-> <<errs[n]>>]>>]

\* Object.entries of a plain object: array-index keys in ascending numeric
\* order, then the other keys in insertion order.
ObjectEntries(entries) ==
  SortSeq(SelectSeq(entries, LAMBDA e : IsArrayIndex(e.filePath)),
          LAMBDA x, y : StringToNumber(x.filePath) < StringToNumber(y.filePath))
    \o SelectSeq(entries, LAMBDA e : ~IsArrayIndex(e.filePath))

\* One sub-report: the file header with its count, then the errors in order.
SubReport(entry) ==
  [filePath |-> entry.filePath, count |-> Len(entry.errors), errors |-> entry.errors]

\* EnhancedErrorReporter.generateReport: the header total and the sub-reports.
generateReport(errs) ==
  IF Len(errs) = 0 THEN [kind |-> "clean", threw |-> FALSE, total |-> 0, files |-> <<>>]
  ELSE LET groupedErrors == groupErrorsByFile(errs, Len(errs))
           listed == ObjectEntries(groupedErrors.entries)
       IN  IF groupedErrors.threw
             THEN [kind |-> "none", threw |-> TRUE, total |-> 0, files |-> <<>>]
             ELSE [kind |-> "report", threw |-> FALSE, total |-> Len(errs),
                   files |-> [k \in 1..Len(listed) |-> SubReport(listed[k])]]

RECURSIVE addCodeErrors(_, _)
\* ErrorReporter.addCodeError for each of the first n errors: the entries of
\* the fileErrors Map in insertion order.
addCodeErrors(errs, n) ==
  IF n = 0 THEN <<>>
  ELSE LET before == addCodeErrors(errs, n - 1)
           at == EntryOf(before, errs[n].filePath)
       IN  IF at # 0
             THEN [before EXCEPT ![at].errors = @ \o <<errs[n]>>]
             ELSE before \o <<[filePath |-> errs[n].filePath, errors |-> <<errs[n]>>]>>

\* Object.entries of a Map: a Map has no own enumerable properties.
ObjectEntriesOfMap(entries) == <<>>

\* ErrorReporter.printReport after addCodeError of every error: the header
\* total is fileErrors.size, the sub-reports are Object.entries(fileErrors).
printReport(errs) ==
  IF Len(errs) = 0 THEN [kind |-> "clean", threw |-> FALSE, total |-> 0, files |-> <<>>]
  ELSE LET fileErrors == addCodeErrors(errs, Len(errs))
           listed == ObjectEntriesOfMap(fileErrors)
       IN  [kind |-> "report", threw |-> FALSE, total |-> Len(fileErrors),
            files |-> [k \in 1..Len(listed) |-> SubReport(listed[k])]]

GenerateReport ==
  /\ phase = "ready"
  /\ node.type = "Diagnostics"
  /\ ret' = [fn |-> "generateReport", val |-> generateReport(node.errors)]
  /\ phase' = "done"
  /\ UNCHANGED <<options, node, errors>>
  /\ UNCHANGED runVars

PrintReport ==
  /\ phase = "ready"
  /\ node.type = "Diagnostics"
  /\ ret' = [fn |-> "printReport", val |-> printReport(node.errors)]
  /\ phase' = "done"
  /\ UNCHANGED <<options, node, errors>>
  /\ UNCHANGED runVars

NextReport ==
  \/ GenerateReport
  \/ PrintReport

\* File paths: two ordinary ones, two that are array indices, and one that
\* names a member of Object.prototype.
ReportPaths == {<<"a">>, <<"b">>, <<"1", "0">>, <<"9">>, s_toString}

\* Lists of diagnostics, each told from the others by its message.
DiagnosticLists ==
  UNION {{[k \in 1..n |-> [filePath |-> paths[k], message |-> k]] :
            paths \in [1..n -> ReportPaths]} : n \in 0..MaxDiagnostics}

InitReport ==
  /\ IdleRun
  /\ options = [toastFunctions |-> <<>>, objectProperties |-> <<>>, allowPatterns |-> <<>>]
  /\ \E errs \in DiagnosticLists : node = [type |-> "Diagnostics", errors |-> errs]
  /\ phase = "ready"
  /\ ret = [fn |-> "none", val |-> <<>>]
  /\ errors = <<>>

SpecReport == InitReport /\ [][NextReport]_vars

\* The files of a list of diagnostics in the order each was first seen.
RECURSIVE FirstSeen(_, _)
FirstSeen(errs, n) ==
  IF n = 0 THEN <<>>
  ELSE LET before == FirstSeen(errs, n - 1)
       IN  IF \E k \in 1..Len(before) : before[k] = errs[n].filePath
             THEN before
             ELSE before \o <<errs[n].filePath>>

RECURSIVE SumCounts(_, _)
SumCounts(fs, k) == IF k > Len(fs) THEN 0 ELSE fs[k].count + SumCounts(fs, k + 1)

ReportRendered == phase = "done" /\ node.type = "Diagnostics" /\ Len(node.errors) > 0

\* The report of ret groups node.errors as the reporter is said to.
GroupedByFile ==
  LET order == FirstSeen(node.errors, Len(node.errors))
      report == ret.val
  IN  /\ ~report.threw
      /\ report.total = Len(node.errors)
      /\ Len(report.files) = Len(order)
      /\ \A k \in 1..Len(report.files) :
           /\ report.files[k].filePath = order[k]
           /\ report.files[k].errors
                = SelectSeq(node.errors, LAMBDA e : e.filePath = order[k])
           /\ report.files[k].count = Len(report.files[k].errors)
      /\ SumCounts(report.files, 1) = report.total

\* C22: the report of a non-empty list of diagnostics groups them by file in
\* first-seen order, keeps each file's diagnostics in their order, shows a
\* total equal to the number of diagnostics and one sub-report per file,
\* the per-file counts summing to the total.
C22_ReportGroupsByFile == ReportRendered => GroupedByFile

\* C22 for generateReport over paths that are neither array indices nor
\* names of members of Object.prototype.
C22_HoldsForOrdinaryPaths ==
  (/\ ReportRendered
   /\ ret.fn = "generateReport"
   /\ \A k \in 1..Len(node.errors) :
        /\ ~IsArrayIndex(node.errors[k].filePath)
        /\ node.errors[k].filePath \notin ObjectPrototypeMembers)
    => GroupedByFile

----------------------------------------------------------------------------
(* File discovery: the include and ignore lists handed to glob *)

\* The default exclusions; each is kept as one unit, no code looks inside.
defaultIgnores ==
  << <<"**/*.test.{js,jsx,ts,tsx}">>,
     <<"**/*.stories.{js,jsx,ts,tsx}">>,
     <<"**/*.spec.{js,jsx,ts,tsx}">>,
     <<"**/node_modules/**">>,
     <<"**/dist/**">>,
     <<"**/build/**">> >>

\* p.startsWith('!')
IsExclusion(p) == StartsWith(p, <<"!">>)

RECURSIVE MapSubstring1(_, _)
\* .map(p => p.substring(1)) from element k on
MapSubstring1(patterns, k) ==
  IF k > Len(patterns) THEN <<>>
  ELSE <<SubSeq(patterns[k], 2, Len(patterns[k]))>> \o MapSubstring1(patterns, k + 1)

\* JSXHardcodeChecker.getPatterns; the script checkers do the same inline.
getPatterns(patterns) ==
  [includePatterns |-> SelectSeq(patterns, LAMBDA p : ~IsExclusion(p)),
   excludePatterns |-> MapSubstring1(SelectSeq(patterns, IsExclusion), 1)]

\* The arguments of glob in checkJSXHardcoding and in both checkFiles.
GlobArguments(patterns) ==
  LET split == getPatterns(patterns)
  IN  [include |-> split.includePatterns,
       ignore |-> defaultIgnores \o split.excludePatterns]

\* JSXHardcodeChecker.getFiles called by checkJSXHardcode: the patterns are
\* split, the include list is split again, and only the two exclusion
\* lists are handed to glob as ignore.
getFiles(includePatternParam, excludePatternParam) ==
  LET split == getPatterns(includePatternParam)
  IN  [include |-> split.includePatterns,
       ignore |-> split.excludePatterns \o excludePatternParam]

TsGlobArguments(patterns) ==
  LET split == getPatterns(patterns)
  IN  getFiles(split.includePatterns, split.excludePatterns)

CheckJSXHardcodingGlob ==
  /\ phase = "ready"
  /\ node.type = "Patterns"
  /\ ret' = [fn |-> "checkJSXHardcoding", val |-> GlobArguments(node.patterns)]
  /\ phase' = "done"
  /\ UNCHANGED <<options, node, errors>>
  /\ UNCHANGED runVars

CheckFilesGlob ==
  /\ phase = "ready"
  /\ node.type = "Patterns"
  /\ ret' = [fn |-> "checkFiles", val |-> GlobArguments(node.patterns)]
  /\ phase' = "done"
  /\ UNCHANGED <<options, node, errors>>
  /\ UNCHANGED runVars

CheckJSXHardcodeGlob ==
  /\ phase = "ready"
  /\ node.type = "Patterns"
  /\ ret' = [fn |-> "checkJSXHardcode", val |-> TsGlobArguments(node.patterns)]
  /\ phase' = "done"
  /\ UNCHANGED <<options, node, errors>>
  /\ UNCHANGED runVars

NextGlob ==
  \/ CheckJSXHardcodingGlob
  \/ CheckFilesGlob
  \/ CheckJSXHardcodeGlob

\* Caller patterns: an inclusion, an exclusion, a bare '!' and a doubled one.
CallerPatterns == {<<"a">>, <<"!", "b">>, <<"!">>, <<"!", "!", "c">>}

InitGlob ==
  /\ IdleRun
  /\ options = [toastFunctions |-> <<>>, objectProperties |-> <<>>, allowPatterns |-> <<>>]
  /\ \E n \in 0..MaxCallerPatterns : \E patterns \in [1..n -> CallerPatterns] :
       node = [type |-> "Patterns", patterns |-> patterns]
  /\ phase = "ready"
  /\ ret = [fn |-> "none", val |-> <<>>]
  /\ errors = <<>>

SpecGlob == InitGlob /\ [][NextGlob]_vars

Globbed == phase = "done" /\ node.type = "Patterns"

Contains(seq, x) == \E k \in 1..Len(seq) : seq[k] = x

\* The lists of ret are as the checkers are said to build them.
DefaultsAndCallerExclusions ==
  /\ \A d \in 1..Len(defaultIgnores) : Contains(ret.val.ignore, defaultIgnores[d])
  /\ \A k \in 1..Len(node.patterns) :
       IsExclusion(node.patterns[k]) =>
         Contains(ret.val.ignore, SubSeq(node.patterns[k], 2, Len(node.patterns[k])))
  /\ ret.val.include = SelectSeq(node.patterns, LAMBDA p : ~IsExclusion(p))

\* C23: for every caller pattern list the ignore list handed to file
\* discovery holds all default exclusions and every '!' pattern of the caller
\* without its '!', and the include list is exactly the caller's other
\* patterns, in every checker.
C23_IgnoreHoldsDefaults == Globbed => DefaultsAndCallerExclusions

\* C23 in the two script checkers.
C23_HoldsInScriptCheckers ==
  (Globbed /\ ret.fn \in {"checkJSXHardcoding", "checkFiles"}) => DefaultsAndCallerExclusions

----------------------------------------------------------------------------
(* The displayed value: getStringValue of the four checkers *)

\* The notification checkers display call arguments and property values,
\* never markup text.
ApplyGetStringValue ==
  /\ phase = "ready"
  /\ node.type # "JSXText"
  /\ ret' = [fn |-> "getStringValue", val |-> getStringValue(node)]
  /\ phase' = "done"
  /\ UNCHANGED <<options, node, errors>>
  /\ UNCHANGED runVars

ApplyLegacyGetStringValue ==
  /\ phase = "ready"
  /\ node.type # "JSXText"
  /\ ret' = [fn |-> "legacyGetStringValue", val |-> legacyGetStringValue(node)]
  /\ phase' = "done"
  /\ UNCHANGED <<options, node, errors>>
  /\ UNCHANGED runVars

ApplyJsxGetStringValue ==
  /\ phase = "ready"
  /\ ret' = [fn |-> "jsxGetStringValue", val |-> jsxGetStringValue(node)]
  /\ phase' = "done"
  /\ UNCHANGED <<options, node, errors>>
  /\ UNCHANGED runVars

ApplyTsGetStringValue ==
  /\ phase = "ready"
  /\ ret' = [fn |-> "tsGetStringValue", val |-> tsGetStringValue(node)]
  /\ phase' = "done"
  /\ UNCHANGED <<options, node, errors>>
  /\ UNCHANGED runVars

NextValue ==
  \/ ApplyGetStringValue
  \/ ApplyLegacyGetStringValue
  \/ ApplyJsxGetStringValue
  \/ ApplyTsGetStringValue

\* Nodes whose value a finding displays: literals, markup text, templates
\* without and with interpolations, other expressions, each also in braces.
DisplayedExpressions ==
  {StringLiteral(<<"H">>), JSXText(<<"H">>), NumericLiteral(1), Identifier(<<"x">>)}
    \cup {TemplateLiteral(<<q>>, <<>>) : q \in Quasis}
    \cup Templates

DisplayedNodes ==
  DisplayedExpressions
    \cup {JSXExpressionContainer(e) : e \in DisplayedExpressions \ {JSXText(<<"H">>)}}

InitValue ==
  /\ IdleRun
  /\ options = [toastFunctions |-> <<>>, objectProperties |-> <<>>, allowPatterns |-> <<>>]
  /\ node \in DisplayedNodes
  /\ phase = "ready"
  /\ ret = [fn |-> "none", val |-> <<>>]
  /\ errors = <<>>

SpecValue == InitValue /\ [][NextValue]_vars

\* The expression displayed: the node, or what its braces hold.
Displayed == IF node.type = "JSXExpressionContainer" THEN node.expression ELSE node

\* C24: the displayed value of a template literal with interpolations is the
\* concatenation of its static segments in order, in every checker, empty
\* when all segments are empty; the fixed sentinel is returned only for
\* shapes other than string literal, markup text and template literal.
C24_StaticSegmentsDisplayed ==
  phase = "done" =>
    /\ IsInterpolatedTemplate(Displayed) => ret.val = JoinAll(Displayed.quasis, 1)
    /\ ret.val = ComplexSentinel =>
         Displayed.type \notin {"StringLiteral", "JSXText", "TemplateLiteral"}

\* C24 in the notification checker for templates with some static text.
C24_HoldsForNonEmptyStaticText ==
  (/\ phase = "done"
   /\ ret.fn = "getStringValue"
   /\ IsInterpolatedTemplate(Displayed) => JoinAll(Displayed.quasis, 1) # <<>>)
    => /\ IsInterpolatedTemplate(Displayed) => ret.val = JoinAll(Displayed.quasis, 1)
       /\ ret.val = ComplexSentinel =>
            Displayed.type \notin {"StringLiteral", "JSXText", "TemplateLiteral"}

----------------------------------------------------------------------------
(* A checker walking the nodes of its files, one after the other *)

\* The nodes a checker visits over its files, in visiting order, and the
\* position of the next one.
Walk(body) == [type |-> "Walk", body |-> body, at |-> 1]

\* A mutation: the policy resolved for the element is written back to the
\* checker's options.
WalkJSXElement_PolicyWrittenBack ==
  /\ phase = "ready"
  /\ node.type = "Walk"
  /\ node.at <= Len(node.body)
  /\ node.body[node.at].type = "JSXElement"
  /\ options = JsxDefaultOptions
  /\ LET o == getOptionsForNode(options, node.body[node.at])
         found_here == checkChildren(node.body[node.at], o) \o checkProps(node.body[node.at], o)
     IN  /\ errors' = errors \o found_here
         /\ ret' = [fn |-> "JSXElement", val |-> found_here]
         /\ options' = [options EXCEPT !.checkProps = OptionOr(o, "checkProps", <<>>)]
  /\ node' = [node EXCEPT !.at = @ + 1]
  /\ UNCHANGED phase
  /\ UNCHANGED runVars

\* The JSXElement visitor of JSXHardcodedChecker on the next node.
WalkJSXElement ==
  /\ phase = "ready"
  /\ node.type = "Walk"
  /\ node.at <= Len(node.body)
  /\ node.body[node.at].type = "JSXElement"
  /\ options = JsxDefaultOptions
  /\ LET o == getOptionsForNode(options, node.body[node.at])
         found_here == checkChildren(node.body[node.at], o) \o checkProps(node.body[node.at], o)
     IN  /\ errors' = errors \o found_here
         /\ ret' = [fn |-> "JSXElement", val |-> found_here]
  /\ node' = [node EXCEPT !.at = @ + 1]
  /\ UNCHANGED <<options, phase>>
  /\ UNCHANGED runVars

\* The JSXElement visitor of JSXHardcodeChecker on the next node.
TsWalkJSXElement ==
  /\ phase = "ready"
  /\ node.type = "Walk"
  /\ node.at <= Len(node.body)
  /\ node.body[node.at].type = "JSXElement"
  /\ options \in TsOptions
  /\ LET o == tsGetOptionsForNode(options, node.body[node.at])
         found_here == tsCheckChildren(node.body[node.at], o) \o tsCheckProps(node.body[node.at], o)
     IN  /\ errors' = errors \o found_here
         /\ ret' = [fn |-> "TsJSXElement", val |-> found_here]
  /\ node' = [node EXCEPT !.at = @ + 1]
  /\ UNCHANGED <<options, phase>>
  /\ UNCHANGED runVars

\* The CallExpression visitor of EnhancedToastChecker on the next node.
WalkCallExpression ==
  /\ phase = "ready"
  /\ node.type = "Walk"
  /\ node.at <= Len(node.body)
  /\ node.body[node.at].type = "CallExpression"
  /\ errors' = errors \o CallExpressionErrors(options, node.body[node.at])
  /\ ret' = [fn |-> "CallExpression", val |-> CallExpressionErrors(options, node.body[node.at])]
  /\ node' = [node EXCEPT !.at = @ + 1]
  /\ UNCHANGED <<options, phase>>
  /\ UNCHANGED runVars

NextWalk ==
  \/ WalkJSXElement
  \/ TsWalkJSXElement
  \/ WalkCallExpression

\* alert("Error"), alert(t('d')), log("Error"), alert({ title: "Error" })
WalkCalls ==
  {CallExpression(Identifier(s_alert), <<StringLiteral(s_Error)>>),
   CallExpression(Identifier(s_alert), <<LookupCall>>),
   CallExpression(Identifier(s_log), <<StringLiteral(s_Error)>>),
   CallExpression(Identifier(s_alert),
                  <<ObjectExpression(<<ObjectProperty(Identifier(s_title), StringLiteral(s_Error))>>)>>)}

\* <button title="Click me">Hi</button>, <Button title="Click me"/>,
\* <p alt="Click me">{`Hi`}</p>, <button placeholder="Click me">{42}</button>
WalkElements ==
  LET ClickMe == StringLiteral(<<"C", "l", "i", "c", "k", " ", "m", "e">>)
  IN  {JSXElement(JSXIdentifier(s_button), <<JSXAttribute(s_title, ClickMe)>>, <<JSXText(<<"H", "i">>)>>),
       JSXElement(JSXIdentifier(s_Button), <<JSXAttribute(s_title, ClickMe)>>, <<>>),
       JSXElement(JSXIdentifier(<<"p">>), <<JSXAttribute(s_alt, ClickMe)>>,
                  <<JSXExpressionContainer(TemplateLiteral(<<<<"H", "i">>>>, <<>>))>>),
       JSXElement(JSXIdentifier(s_button), <<JSXAttribute(s_placeholder, ClickMe)>>,
                  <<JSXExpressionContainer(NumericLiteral(42))>>)}

ToastOptions ==
  [toastFunctions |-> <<s_alert>>,
   objectProperties |-> <<s_title, s_text, s_body>>,
   allowPatterns |-> DefaultAllowPatterns]

InitWalk ==
  /\ IdleRun
  /\ \/ /\ options = ToastOptions
        /\ \E n \in 1..MaxVisits : \E body \in [1..n -> WalkCalls] : node = Walk(body)
     \/ /\ options \in {JsxDefaultOptions} \cup TsOptions
        /\ \E n \in 1..MaxVisits : \E body \in [1..n -> WalkElements] : node = Walk(body)
  /\ phase = "ready"
  /\ ret = [fn |-> "none", val |-> <<>>]
  /\ errors = <<>>

SpecWalk == InitWalk /\ [][NextWalk]_vars

FindingsOfFreshChecker ==
  LET n == node.body[node.at - 1]
  IN  CASE ret.fn = "CallExpression" -> CallExpressionErrors(ToastOptions, n)
        [] ret.fn = "JSXElement" ->
             checkChildren(n, getOptionsForNode(JsxDefaultOptions, n))
               \o checkProps(n, getOptionsForNode(JsxDefaultOptions, n))
        [] ret.fn = "TsJSXElement" ->
             tsCheckChildren(n, tsGetOptionsForNode(options, n))
               \o tsCheckProps(n, tsGetOptionsForNode(options, n))

----------------------------------------------------------------------------
(* The reported position of a finding *)

Positions == (1..MaxLine) \X (0..MaxColumn)

\* Position q lies after position p in the source.
After(p, q) == q[1] > p[1] \/ (q[1] = p[1] /\ q[2] > p[2])

\* alert("Error") with the argument at p
LocatedSimpleCalls ==
  {CallExpression(Identifier(s_alert), <<At(StringLiteral(s_Error), p[1], p[2])>>) :
     p \in Positions}

\* alert({ title: "Error" }) with the property at p and its value at q
LocatedObjectCalls ==
  {CallExpression(Identifier(s_alert),
     <<ObjectExpression(
         <<At(ObjectProperty(Identifier(s_title), At(StringLiteral(s_Error), pq[2][1], pq[2][2])),
              pq[1][1], pq[1][2])>>)>>) :
     pq \in {x \in Positions \X Positions : After(x[1], x[2])}}

\* <button title={`Hi`}>Hi</button> and <button title="Hi">Hi</button> with
\* the attribute at p, its value at q and the text at r
LocatedElements ==
  {JSXElement(JSXIdentifier(s_button),
     <<At(JSXAttribute(s_title, At(v, pqr[2][1], pqr[2][2])), pqr[1][1], pqr[1][2])>>,
     <<At(JSXText(<<"H", "i">>), pqr[3][1], pqr[3][2])>>) :
     pqr \in {x \in Positions \X Positions \X Positions : After(x[1], x[2]) /\ After(x[2], x[3])},
     v \in {StringLiteral(<<"H", "i">>),
            JSXExpressionContainer(TemplateLiteral(<<<<"H", "i">>>>, <<>>))}}

InitLoc ==
  /\ IdleRun
  /\ \/ /\ options = ToastOptions
        /\ node \in LocatedSimpleCalls \cup LocatedObjectCalls
     \/ /\ options \in {JsxDefaultOptions} \cup {o \in TsOptions : ~o.allowStrings /\ o.modules = <<>>}
        /\ node \in LocatedElements
  /\ phase = "ready"
  /\ ret = [fn |-> "none", val |-> <<>>]
  /\ errors = <<>>

NextLoc ==
  \/ VisitCallExpression
  \/ VisitJSXElementWithDefaults
  \/ TsVisitJSXElement

SpecLoc == InitLoc /\ [][NextLoc]_vars

\* The value node a finding of `node` is about.
OffendingValue(e) ==
  CASE e.type = "toast-function" -> node.arguments[1]
    [] e.type = "toast-object-property" -> node.arguments[1].properties[1].value
    [] e.type = "jsx-prop" -> node.openingElement.attributes[1].value
    [] e.type = "jsx-children" -> node.children[1]

ReportedAtValue(e) ==
  /\ e.line = StartLine(OffendingValue(e))
  /\ e.column = StartColumn(OffendingValue(e))

\* C26: the line and column of every finding are the start line and start
\* column of the offending value node, also when the value starts at column 0.
C26_PositionOfValueNode ==
  phase = "done" => \A k \in 1..Len(errors) : ReportedAtValue(errors[k])

\* C26 for findings whose value does not start at column 0, and for call
\* arguments and markup text at any column.
C26_HoldsOffColumnZero ==
  phase = "done" =>
    \A k \in 1..Len(errors) :
      (\/ StartColumn(OffendingValue(errors[k])) # 0
       \/ errors[k].type \in {"toast-function", "jsx-children"})
        => ReportedAtValue(errors[k])

----------------------------------------------------------------------------
(* Detection and verdict of the notification checker *)

\* checkFiles returns allErrors.length === 0: over the one call visited,
\* the verdict is a pass iff the visitor pushed no finding.
VerdictIsPass == Len(errors) = 0

HasSpreadMember(n) ==
  /\ n.type = "ObjectExpression"
  /\ \E k \in 1..Len(n.properties) : n.properties[k].type = "SpreadElement"

\* C27: every argument of a notification call that isHardcodedValue
\* classifies as hardcoded produces at least one finding, so the verdict is
\* a pass only if no argument was classified as hardcoded, also for object
\* arguments hardcoded only through a spread element or a nested value.
C27_HardcodedArgumentHasFinding ==
  (VisitedNotificationCall /\ isHardcodedValue(options, Arg)) =>
    (Len(errors) >= 1 /\ ~VerdictIsPass)

\* C27 for every argument other than an object with a spread member.
C27_HoldsWithoutSpread ==
  (VisitedNotificationCall /\ isHardcodedValue(options, Arg) /\ ~HasSpreadMember(Arg)) =>
    (Len(errors) >= 1 /\ ~VerdictIsPass)


----------------------------------------------------------------------------
(* The traversal of a syntax tree by the notification checkers *)

s_dataTitle == <<"d", "a", "t", "a", "-", "t", "i", "t", "l", "e">>

\* ['data-tooltip', 'data-title', 'data-message', 'data-content']
DataAttributes ==
  {<<"d", "a", "t", "a", "-", "t", "o", "o", "l", "t", "i", "p">>, s_dataTitle,
   <<"d", "a", "t", "a", "-", "m", "e", "s", "s", "a", "g", "e">>,
   <<"d", "a", "t", "a", "-", "c", "o", "n", "t", "e", "n", "t">>}

\* A mutation: the ObjectProperty visitor without its early return.
ObjectPropertyVisitorErrors_Enabled(opts, prop) ==
  IF isUserFacingProperty(opts, prop) /\ isHardcodedValue(opts, prop.value)
    THEN <<[line |-> StartLine(prop.value), column |-> StartColumn(prop.value),
            type |-> "object-property", value |-> getStringValue(prop.value),
            functionName |-> <<>>, propertyName |-> KeyText(prop.key),
            suggestion |-> KeyText(prop.key) \o <<":", " ", "t", "(", "'">>
                             \o suggestKey(KeyText(prop.key), getStringValue(prop.value))
                             \o <<"'", ")">>]>>
    ELSE <<>>

\* The ObjectProperty visitor (current variant): it returns at once.
ObjectPropertyVisitorErrors(opts, prop) == <<>>

\* The JSXAttribute visitor, the same in both variants but for the classifier.
JSXAttributeErrors(opts, attr, legacy) ==
  IF /\ attr.name \in DataAttributes
     /\ (IF legacy THEN legacyIsHardcodedValue(opts, attr.value)
         ELSE isHardcodedValue(opts, attr.value))
    THEN <<[line |-> StartLine(attr.value), column |-> StartColumn(attr.value),
            type |-> "jsx-attribute",
            value |-> IF legacy THEN legacyGetStringValue(attr.value)
                      ELSE getStringValue(attr.value),
            functionName |-> <<>>, propertyName |-> attr.name,
            suggestion |-> attr.name \o <<"=", "{", "t", "(", "'">>
                             \o suggestKey(attr.name,
                                           IF legacy THEN legacyGetStringValue(attr.value)
                                           ELSE getStringValue(attr.value))
                             \o <<"'", ")", "}">>]>>
    ELSE <<>>

RECURSIVE TraverseErrors(_, _, _)
RECURSIVE TraverseAll(_, _, _, _)
\* traverse(ast, { CallExpression, ObjectProperty, JSXAttribute }) below node
\* n, parents before children: what the visitors push into errors.
TraverseErrors(opts, n, legacy) ==
  CASE n.type = "CallExpression" ->
         (IF legacy THEN LegacyCallExpressionErrors(opts, n) ELSE CallExpressionErrors(opts, n))
           \o TraverseErrors(opts, n.callee, legacy)
           \o TraverseAll(opts, n.arguments, legacy, 1)
    [] n.type = "MemberExpression" ->
         TraverseErrors(opts, n.object, legacy) \o TraverseErrors(opts, n.property, legacy)
    [] n.type = "ObjectExpression" -> TraverseAll(opts, n.properties, legacy, 1)
    [] n.type = "ObjectProperty" ->
         (IF legacy THEN LegacyObjectPropertyErrors(opts, n)
          ELSE ObjectPropertyVisitorErrors(opts, n))
           \o TraverseErrors(opts, n.key, legacy)
           \o TraverseErrors(opts, n.value, legacy)
    [] n.type = "SpreadElement" -> TraverseErrors(opts, n.argument, legacy)
    [] n.type = "ArrayExpression" -> TraverseAll(opts, n.elements, legacy, 1)
    [] n.type = "TemplateLiteral" -> TraverseAll(opts, n.expressions, legacy, 1)
    [] n.type = "JSXExpressionContainer" -> TraverseErrors(opts, n.expression, legacy)
    [] n.type = "JSXElement" ->
         TraverseAll(opts, n.openingElement.attributes, legacy, 1)
           \o TraverseAll(opts, n.children, legacy, 1)
    [] n.type = "JSXAttribute" ->
         JSXAttributeErrors(opts, n, legacy) \o TraverseErrors(opts, n.value, legacy)
    [] OTHER -> <<>>

TraverseAll(opts, nodes, legacy, k) ==
  IF k > Len(nodes) THEN <<>>
  ELSE TraverseErrors(opts, nodes[k], legacy) \o TraverseAll(opts, nodes, legacy, k + 1)

\* The visitors of EnhancedToastChecker.checkFile over the statements of a file.
TraverseFile ==
  /\ phase = "ready"
  /\ node.type = "Program"
  /\ errors' = TraverseAll(options, node.body, FALSE, 1)
  /\ ret' = [fn |-> "traverse", val |-> Len(TraverseAll(options, node.body, FALSE, 1))]
  /\ phase' = "done"
  /\ UNCHANGED <<options, node>>
  /\ UNCHANGED runVars

\* The visitors of the legacy variant over the statements of a file.
LegacyTraverseFile ==
  /\ phase = "ready"
  /\ node.type = "Program"
  /\ errors' = TraverseAll(options, node.body, TRUE, 1)
  /\ ret' = [fn |-> "legacyTraverse", val |-> Len(TraverseAll(options, node.body, TRUE, 1))]
  /\ phase' = "done"
  /\ UNCHANGED <<options, node>>
  /\ UNCHANGED runVars

NextTree ==
  \/ TraverseFile
  \/ LegacyTraverseFile

\* Node n on a line of its own.
OnLine(n, line) == At(n, line, 1)

\* alert(arg), the call on line b, its callee on b + 1
AlertCall(b, arg) ==
  OnLine(CallExpression(OnLine(Identifier(s_alert), b + 1), <<arg>>), b)

\* { key: value }, on line b, the property on b + 1, its key on b + 2
ObjectWith(b, key, value) ==
  OnLine(ObjectExpression(
           <<OnLine(ObjectProperty(OnLine(Identifier(key), b + 2), value), b + 1)>>), b)

\* The statements of a file, each node on its own line from line b on:
\* alert("Error"); alert(`Hi`); alert({ title: "Error" });
\* alert(alert("Error")); alert({ title: alert("Error") });
\* alert({ title: { text: "Error" } }); alert({ title: ["Error"] });
\* o = { title: `Hi` }; <b data-title="Error">{alert({ text: "Error" })}</b>
Statements(b) ==
  { AlertCall(b, OnLine(StringLiteral(s_Error), b + 2)),
    AlertCall(b, OnLine(TemplateLiteral(<<<<"H", "i">>>>, <<>>), b + 2)),
    AlertCall(b, ObjectWith(b + 2, s_title, OnLine(StringLiteral(s_Error), b + 5))),
    AlertCall(b, AlertCall(b + 2, OnLine(StringLiteral(s_Error), b + 4))),
    AlertCall(b, ObjectWith(b + 2, s_title,
                            AlertCall(b + 5, OnLine(StringLiteral(s_Error), b + 7)))),
    AlertCall(b, ObjectWith(b + 2, s_title,
                            ObjectWith(b + 5, s_text, OnLine(StringLiteral(s_Error), b + 8)))),
    AlertCall(b, ObjectWith(b + 2, s_title,
                            OnLine(ArrayExpression(<<OnLine(StringLiteral(s_Error), b + 6)>>), b + 5))),
    ObjectWith(b, s_title, OnLine(TemplateLiteral(<<<<"H", "i">>>>, <<>>), b + 3)),
    OnLine(JSXElement(
             JSXIdentifier(<<"b">>),
             <<OnLine(JSXAttribute(s_dataTitle, OnLine(StringLiteral(s_Error), b + 2)), b + 1)>>,
             <<OnLine(JSXExpressionContainer(
                        AlertCall(b + 4, ObjectWith(b + 6, s_text,
                                                    OnLine(StringLiteral(s_Error), b + 9)))),
                      b + 3)>>), b) }

\* Every call is a notification call.
WildcardOptions == [ToastOptions EXCEPT !.toastFunctions = <<<<"*">>>>]

InitTree ==
  /\ IdleRun
  /\ options \in {ToastOptions, WildcardOptions}
  /\ \E n \in 1..MaxStatements :
       \E body \in {b \in [1..n -> UNION {Statements(10 * k) : k \in 1..n}] :
                      \A k \in 1..n : b[k] \in Statements(10 * k)} :
         node = [type |-> "Program", body |-> body]
  /\ phase = "ready"
  /\ ret = [fn |-> "none", val |-> 0]
  /\ errors = <<>>

SpecTree == InitTree /\ [][NextTree]_vars

Traversed == phase = "done" /\ node.type = "Program"

\* C29: within one run of a checker over one file no source node yields
\* more than one finding: no two findings are at the same node.
C29_OneFindingPerNode ==
  Traversed =>
    \A j, k \in 1..Len(errors) :
      (errors[j].line = errors[k].line /\ errors[j].column = errors[k].column) => j = k

\* A file with a hardcoded property of a notification call's argument
\* object and a second finding, traversed by the current variant.
C29_Witness ==
  /\ Traversed
  /\ ret.fn = "traverse"
  /\ Len(errors) >= 2
  /\ \E k \in 1..Len(errors) : errors[k].type = "toast-object-property"

----------------------------------------------------------------------------
(* checkFile over one file: the parser or a visitor may throw *)

\* <svg:rect>: the name has a namespace and a name, each a JSXIdentifier.
JSXNamespacedName(namespace, name) ==
  [type |-> "JSXNamespacedName", namespace |-> namespace, name |-> name]

\* JSXHardcodedChecker.getOptionsForNode throws: tagName is the JSXIdentifier
\* node of a namespaced name, tagName[0] is undefined, and
\* undefined.toLowerCase() is a TypeError.
getOptionsForNodeThrows(n) == n.openingElement.name.type = "JSXNamespacedName"

\* A parsed (or unparsable) file: the nodes the traversal visits, in order.
SourceFile(parses, body) == [type |-> "File", parses |-> parses, body |-> body]

RECURSIVE jsxTraverseFrom(_, _, _, _)
\* traverse(ast, { JSXElement }) of JSXHardcodedChecker.checkFile from node
\* k on, errs being the array `errors` so far: the array when the traversal
\* ends, and whether a visitor threw.
jsxTraverseFrom(opts, body, k, errs) ==
  IF k > Len(body) THEN [errors |-> errs, threw |-> FALSE]
  ELSE IF getOptionsForNodeThrows(body[k]) THEN [errors |-> errs, threw |-> TRUE]
  ELSE LET o == getOptionsForNode(opts, body[k])
       IN  jsxTraverseFrom(opts, body, k + 1,
                           errs \o checkChildren(body[k], o) \o checkProps(body[k], o))

RECURSIVE tsTraverseFrom(_, _, _, _)
\* traverse(ast, { JSXElement }) of JSXHardcodeChecker.checkFile
tsTraverseFrom(opts, body, k, errs) ==
  IF k > Len(body) THEN [errors |-> errs, threw |-> FALSE]
  ELSE LET o == tsGetOptionsForNode(opts, body[k])
       IN  tsTraverseFrom(opts, body, k + 1,
                          errs \o tsCheckChildren(body[k], o) \o tsCheckProps(body[k], o))

RECURSIVE toastTraverseFrom(_, _, _, _)
\* traverse(ast, { CallExpression, ... }) of EnhancedToastChecker.checkFile
toastTraverseFrom(opts, body, k, errs) ==
  IF k > Len(body) THEN [errors |-> errs, threw |-> FALSE]
  ELSE toastTraverseFrom(opts, body, k + 1, errs \o CallExpressionErrors(opts, body[k]))

\* JSXHardcodedChecker.checkFile: `errors` is declared before the try, the
\* catch logs the warning, and `return errors` follows the try.
CheckFileJsx ==
  /\ phase = "ready"
  /\ node.type = "File"
  /\ options = JsxDefaultOptions
  /\ LET walked == IF node.parses THEN jsxTraverseFrom(options, node.body, 1, <<>>)
                   ELSE [errors |-> <<>>, threw |-> TRUE]
     IN  /\ ret' = [fn |-> "checkFile", val |-> walked.errors, warned |-> walked.threw]
         /\ errors' = walked.errors
  /\ phase' = "done"
  /\ UNCHANGED <<options, node>>
  /\ UNCHANGED runVars

\* EnhancedToastChecker.checkFile, of the same shape.
CheckFileToast ==
  /\ phase = "ready"
  /\ node.type = "File"
  /\ options = ToastOptions
  /\ LET walked == IF node.parses THEN toastTraverseFrom(options, node.body, 1, <<>>)
                   ELSE [errors |-> <<>>, threw |-> TRUE]
     IN  /\ ret' = [fn |-> "checkFile", val |-> walked.errors, warned |-> walked.threw]
         /\ errors' = walked.errors
  /\ phase' = "done"
  /\ UNCHANGED <<options, node>>
  /\ UNCHANGED runVars

\* JSXHardcodeChecker.checkFile: the catch returns the error and no
\* findings; checkJSXHardcode logs the warning.
CheckFileTs ==
  /\ phase = "ready"
  /\ node.type = "File"
  /\ options \in TsOptions
  /\ LET walked == IF node.parses THEN tsTraverseFrom(options, node.body, 1, <<>>)
                   ELSE [errors |-> <<>>, threw |-> TRUE]
     IN  /\ ret' = [fn |-> "tsCheckFile",
                    val |-> IF walked.threw THEN <<>> ELSE walked.errors,
                    warned |-> walked.threw]
         /\ errors' = IF walked.threw THEN <<>> ELSE walked.errors
  /\ phase' = "done"
  /\ UNCHANGED <<options, node>>
  /\ UNCHANGED runVars

NextFile ==
  \/ CheckFileJsx
  \/ CheckFileToast
  \/ CheckFileTs

\* <p>Hi</p>, <p>{t('d')}</p>, <svg:rect/>
FileElements ==
  {JSXElement(JSXIdentifier(<<"p">>), <<>>, <<JSXText(<<"H", "i">>)>>),
   JSXElement(JSXIdentifier(<<"p">>), <<>>, <<JSXExpressionContainer(LookupCall)>>),
   JSXElement(JSXNamespacedName(JSXIdentifier(<<"s", "v", "g">>), JSXIdentifier(<<"r", "e", "c", "t">>)),
              <<>>, <<>>)}

InitFile ==
  /\ IdleRun
  /\ \/ /\ options = ToastOptions
        /\ \E parses \in BOOLEAN, n \in 0..MaxBody : \E body \in [1..n -> WalkCalls] :
             node = SourceFile(parses, IF parses THEN body ELSE <<>>)
     \/ /\ options \in {JsxDefaultOptions} \cup TsOptions
        /\ \E parses \in BOOLEAN, n \in 0..MaxBody : \E body \in [1..n -> FileElements] :
             node = SourceFile(parses, IF parses THEN body ELSE <<>>)
  /\ phase = "ready"
  /\ ret = [fn |-> "none", val |-> <<>>, warned |-> FALSE]
  /\ errors = <<>>

SpecFile == InitFile /\ [][NextFile]_vars

\* C28: whenever checkFile logs a warning for a file because an exception
\* was caught, raised by the parser or inside a visitor, the finding list
\* returned for the file is empty.
C28_WarnedFileHasNoFindings ==
  (phase = "done" /\ node.type = "File" /\ ret.warned) => ret.val = <<>>

\* C28 when the exception is raised by the parser.
C28_HoldsForParserErrors ==
  (phase = "done" /\ node.type = "File" /\ ret.warned /\ ~node.parses) => ret.val = <<>>

----------------------------------------------------------------------------
(* The order of the steps of runAllChecks *)

\* The positions of the log at which engine e logged one of evs.
LogPositions(e, evs) == {k \in 1..Len(log) : log[k].engine = e /\ log[k].ev \in evs}

Returns == {"pass", "report", "error"}

\* No exception has left a sub-engine.
NoEngineThrew == \A k \in 1..Len(log) : log[k].ev # "fatal"

\* The JSX engine has returned to runAllChecks.
JsxReturned == LogPositions("jsx", Returns) # {}

\* C30: in runAllChecks the notification check starts only after the JSX
\* check has returned and is started whether that passed or failed; the
\* summary is printed exactly once, after both have returned; the process
\* exits with failure only after the summary, if no sub-engine throws.
C30_EnginesInSequence ==
  (mode = "all" /\ NoEngineThrew) =>
    /\ \A t \in LogPositions("toast", {"start"}) :
         /\ \E j \in LogPositions("jsx", Returns) : j < t
         /\ \A j \in 1..Len(log) : log[j].engine = "jsx" => j < t
    /\ (JsxReturned /\ pc # "toastGlob") => LogPositions("toast", {"start"}) # {}
    /\ Cardinality(LogPositions("all", {"summary"})) <= 1
    /\ \A m \in LogPositions("all", {"summary"}) :
         /\ \E j \in LogPositions("jsx", Returns) : j < m
         /\ \E j \in LogPositions("toast", Returns) : j < m
         /\ m = Len(log)
    /\ pc = "done" => Cardinality(LogPositions("all", {"summary"})) = 1
    /\ exitCode = 1 => LogPositions("all", {"summary"}) # {}

\* A run in which the JSX check failed, the notification check ran all the
\* same and passed, and the process exited with failure after the summary.
C30_Witness ==
  /\ mode = "all"
  /\ NoEngineThrew
  /\ pc = "done"
  /\ exitCode = 1
  /\ ~results.jsx
  /\ results.toast
  /\ LogPositions("jsx", {"report"}) # {}
  /\ LogPositions("toast", {"start"}) # {}
  /\ LogPositions("all", {"summary"}) = {Len(log)}

====
